---- MODULE Spec2Model ----
(***************************************************************************)
(* A model of rdump: the Action Runner (src/actions/runner.rs) and the ZFS *)
(* clone planner (src/zfs.rs).                                             *)
(*                                                                         *)
(* Spec      : a Runner is built with push/append and then run.            *)
(* SpecClone : Zfs::clone over a source and a destination inventory.       *)
(***************************************************************************)
EXTENDS Integers, Sequences, FiniteSets, TLC

\* ------------------------------------------------------------------ bounds

\* The number of Actions constructed in one behaviour.
MaxActions == 4

\* The number of snapshots of one Filesystem of an inventory.
MaxSnaps == 2

\* ------------------------------------------------------------- helpers

Reverse(s) == [i \in 1..Len(s) |-> s[Len(s) + 1 - i]]

RECURSIVE Ids(_)
Ids(s) == IF s = <<>> THEN <<>> ELSE <<Head(s).id>> \o Ids(Tail(s))

Front(s) == SubSeq(s, 1, Len(s) - 1)

Last(s) == s[Len(s)]

\* The index of the first Action of s whose perform fails, 0 when none does.
FirstFail(s) ==
    IF \E i \in 1..Len(s) : s[i].pf
    THEN CHOOSE i \in 1..Len(s) : s[i].pf /\ \A j \in 1..(i - 1) : ~s[j].pf
    ELSE 0

\* ------------------------------------------------------------------ state

VARIABLES
    actions,    \* Runner.actions of the runner that is built and then run
    other,      \* Runner.actions of a second runner, the argument of append
    nextId,     \* identity of the next Action constructed
    pc,         \* "build" | "loop" | "cleanup" | "done": the position in run
    pretend,    \* the argument of run
    iter,       \* what self.actions.into_iter() has not yielded yet
    cleanups,   \* the local Vec cleanups of run
    err,        \* the perform error run is about to return
    ret,        \* the value run returned, "none" before it returns
    performed,  \* ids of the Actions perform was invoked on, in call order
    succeeded,  \* ids of the Actions whose perform returned Ok(()), in call order
    cleaned,    \* ids of the Actions cleanup was invoked on, in call order
    out,        \* lines printed on standard output
    log         \* log::error! records

runnerVars == <<actions, other, nextId, pc, pretend, iter, cleanups, err, ret,
                performed, succeeded, cleaned, out, log>>

VARIABLES
    srcFs,      \* Zfs.filesystems of self, the source inventory
    dstFs,      \* Zfs.filesystems of dest_zfs, the destination inventory
    perform,    \* the argument perform of clone
    excludes,   \* the argument excludes of clone
    cpc,        \* "idle" | "loop" | "done": the position in clone
    cIdx,       \* index in source_fs of the Filesystem the for loop is at
    cDone,      \* per source Filesystem visited: what clone did with it
    cRet        \* the value clone returned, "none" before it returns

cloneVars == <<srcFs, dstFs, perform, excludes, cpc, cIdx, cDone, cRet>>

VARIABLES
    xpc,        \* "idle" | "estimate" | "spawn_send" | "spawn_pv" | "spawn_recv" |
                \* "wait_send" | "wait_pv" | "wait_recv" | "done": the position
                \* in one planned transfer, estimate_size and then do_clone
    xOut,       \* standard output of the size-estimate command, line by line
    xSize,      \* the local size of clone_one, None before estimate_size returns
    xExit,      \* per stage of the pipeline: "none" | "running" | "ok" | "fail"
    xEvents,    \* commands run, children spawned and children waited on, in order
    xRet        \* what the transfer returned, Pending before it returns

xferVars == <<xpc, xOut, xSize, xExit, xEvents, xRet>>

VARIABLES
    vpc,        \* "idle" | "get" | "create" | "done": the position in make_volume
    vOut,       \* standard output of zfs get -Hp all, line by line
    vArgs,      \* the arguments of the zfs create command, None before it is run
    vRet        \* the value make_volume returned, Pending before it returns

volVars == <<vpc, vOut, vArgs, vRet>>

VARIABLES
    pFs,        \* Zfs.filesystems of self, the inventory prune_hanoi looks at
    pName,      \* the argument fs_name of prune_hanoi
    pReally,    \* the argument really of prune_hanoi
    pKeep,      \* the number of recent snapshots kept, PRUNE_KEEP in the program
    ppc,        \* "idle" | "select" | "loop" | "done": the position in prune_hanoi
    pToPrune,   \* the local Vec to_prune, once reversed
    pIdx,       \* index in to_prune of the name the for loop is at
    pOut,       \* lines printed on standard output
    pCmds,      \* zfs commands run, in order, each with its exit status
    pRet        \* the value prune_hanoi returned, Pending before it returns

pruneVars == <<pFs, pName, pReally, pKeep, ppc, pToPrune, pIdx, pOut, pCmds, pRet>>

VARIABLES
    bpc,        \* "idle" | "lines" | "done": the position in Zfs::new
    bLines,     \* standard output of zfs list -H -t all, line by line
    bIdx,       \* index in bLines of the line the for loop is at
    work,       \* SnapBuilder.work
    bRet        \* what Zfs::new returned, Pending before it returns

buildVars == <<bpc, bLines, bIdx, work, bRet>>

VARIABLES
    nPool,      \* the datasets of the pool and their snapshots, what zfs list shows
    nFs,        \* Zfs.filesystems of self, the inventory as of the last Zfs::new
    nUnder,     \* the argument under of next_under, and fs of take_snapshot
    npc,        \* "idle" | "next" | "take" | "rebuild" | "done": the position of
                \* a caller that numbers, takes and lists again
    nList,      \* what self.filtered(under) returned in next_under
    nNext,      \* what next_under returned, None before it is called
    nTaken,     \* the snapshots take_snapshot made, in order: index and name
    nRet        \* the error take_snapshot returned, Pending when there is none

snapVars == <<nPool, nFs, nUnder, npc, nList, nNext, nTaken, nRet>>

VARIABLES
    kEnable,    \* the argument enable of Sudo::start
    kRoot,      \* whether the effective uid is 0
    kpc,        \* "idle" | "start" | "poke" | "live" | "dropped" | "err": where
                \* the owner of the Sudo value is
    kChild,     \* Sudo.child: None or Some of the JoinHandle
    kTask,      \* the background task: "none" | "first" | "tick" | "poke" (the
                \* await it is parked at) | "ended" | "cancelled"
    kTicks,     \* the number of ticks of the interval that have completed
    kPokes,     \* the sudo true processes started, in order
    kCmds,      \* what new_cmd returned, call by call
    kLog,       \* log::error! records of the background task
    kRet        \* what Sudo::start returned, Pending before it returns

sudoVars == <<kEnable, kRoot, kpc, kChild, kTask, kTicks, kPokes, kCmds, kLog, kRet>>

VARIABLES
    gSimple,    \* ConfigFile.simple: the names of the Simple targets, in order
    gLvm,       \* ConfigFile.lvm: the names of the Lvm targets, in order
    gNames,     \* the argument names of build_runner
    gpc,        \* "idle" | "begin" | "simple" | "lvm" | "finish" | "done": the
                \* position in build_runner
    gIdx,       \* index of the target the for loop is at
    gRunners,   \* the local BTreeMap runners: per Phase, the actions of its Runner
    gRunner,    \* the actions of the Runner that is returned
    gRet        \* what build_runner returned, Pending before it returns

cfgVars == <<gSimple, gLvm, gNames, gpc, gIdx, gRunners, gRunner, gRet>>

VARIABLES
    qpc,        \* "idle" | "spawn_send" | "spawn_pv" | "spawn_recv" | "wait_send" |
                \* "wait_pv" | "wait_recv" | "done": the position in do_clone
    qProc,      \* per stage, its process: "none" | "running" | "ok" | "fail"
    qLeft,      \* what zfs send has still to write, in blocks
    qPipe,      \* per pipe, the blocks in its buffer: p1 is send to pv, p2 is
                \* pv to receive
    qFds,       \* the read ends of the pipes that are open in the process that
                \* runs do_clone
    qGot,       \* the blocks zfs receive has read
    qRet        \* what do_clone returned, Pending before it returns

pipeVars == <<qpc, qProc, qLeft, qPipe, qFds, qGot, qRet>>

VARIABLES
    cRun,       \* 1 for the first clone of the pair of subtrees, 2 for the second
    cFirst      \* cDone of the first clone, once the second is started

convVars == <<cRun, cFirst>>

vars == <<runnerVars, cloneVars, xferVars, volVars, pruneVars, buildVars, snapVars, sudoVars, cfgVars, pipeVars, convVars>>

\* What each component leaves alone.
exceptRunner == <<cloneVars, xferVars, volVars, pruneVars, buildVars, snapVars, sudoVars, cfgVars, pipeVars, convVars>>
exceptClone == <<runnerVars, xferVars, volVars, pruneVars, buildVars, snapVars, sudoVars, cfgVars, pipeVars, convVars>>
exceptXfer == <<runnerVars, cloneVars, volVars, pruneVars, buildVars, snapVars, sudoVars, cfgVars, pipeVars, convVars>>
exceptVol == <<runnerVars, cloneVars, xferVars, pruneVars, buildVars, snapVars, sudoVars, cfgVars, pipeVars, convVars>>
exceptPrune == <<runnerVars, cloneVars, xferVars, volVars, buildVars, snapVars, sudoVars, cfgVars, pipeVars, convVars>>
exceptBuild == <<runnerVars, cloneVars, xferVars, volVars, pruneVars, snapVars, sudoVars, cfgVars, pipeVars, convVars>>
exceptSnap == <<runnerVars, cloneVars, xferVars, volVars, pruneVars, buildVars, sudoVars, cfgVars, pipeVars, convVars>>
exceptSudo == <<runnerVars, cloneVars, xferVars, volVars, pruneVars, buildVars, snapVars, cfgVars, pipeVars, convVars>>
exceptCfg == <<runnerVars, cloneVars, xferVars, volVars, pruneVars, buildVars, snapVars, sudoVars, pipeVars, convVars>>
exceptPipe == <<runnerVars, cloneVars, xferVars, volVars, pruneVars, buildVars, snapVars, sudoVars, cfgVars, convVars>>
exceptConv == <<runnerVars, cloneVars, xferVars, volVars, pruneVars, buildVars, snapVars, sudoVars, cfgVars, pipeVars>>

\* An Action is a boxed trait object.  Its identity is id; pf and cf say
\* whether its perform and its cleanup return Err when they are called (each
\* is called at most once, so the outcome is fixed per Action).
ActionRec(i, pf, cf) == [id |-> i, pf |-> pf, cf |-> cf]

Ok == <<"Ok">>

\* The value of a call that has not returned.
Pending == <<"pending">>

Err(e) == <<"Err", e>>
PerformErr(a) == <<"perform", a.id>>
CleanupErr(a) == <<"cleanup", a.id>>

\* println!("would: {}", action.describe())
Describe(a) == <<"would", a.id>>

\* ------------------------------------------------------------ Runner::new

InitRunner ==
    /\ actions = <<>>
    /\ other = <<>>
    /\ nextId = 1
    /\ pc = "build"
    /\ pretend = FALSE
    /\ iter = <<>>
    /\ cleanups = <<>>
    /\ err = "none"
    /\ ret = "none"
    /\ performed = <<>>
    /\ succeeded = <<>>
    /\ cleaned = <<>>
    /\ out = <<>>
    /\ log = <<>>

\* ----------------------------------------------------------- Runner::push

VecPush(v, a) == Append(v, a)

Push ==
    /\ pc = "build"
    /\ nextId <= MaxActions
    /\ \E pf \in BOOLEAN, cf \in BOOLEAN :
          actions' = VecPush(actions, ActionRec(nextId, pf, cf))
    /\ nextId' = nextId + 1
    /\ UNCHANGED <<other, pc, pretend, iter, cleanups, err, ret,
                   performed, succeeded, cleaned, out, log, exceptRunner>>

PushOther ==
    /\ pc = "build"
    /\ nextId <= MaxActions
    /\ \E pf \in BOOLEAN, cf \in BOOLEAN :
          other' = VecPush(other, ActionRec(nextId, pf, cf))
    /\ nextId' = nextId + 1
    /\ UNCHANGED <<actions, pc, pretend, iter, cleanups, err, ret,
                   performed, succeeded, cleaned, out, log, exceptRunner>>

\* --------------------------------------------------------- Runner::append

\* An append that puts the argument's elements in front.
VecAppendPrepends(self, oth) == [self |-> oth \o self, other |-> <<>>]

\* Vec::append(&mut self, other: &mut Vec): moves every element of other to
\* the end of self and leaves other empty.
VecAppend(self, oth) == [self |-> self \o oth, other |-> <<>>]

AppendOther ==
    /\ pc = "build"
    /\ actions' = VecAppend(actions, other).self
    /\ other' = VecAppend(actions, other).other
    /\ UNCHANGED <<nextId, pc, pretend, iter, cleanups, err, ret,
                   performed, succeeded, cleaned, out, log, exceptRunner>>

\* ------------------------------------------------------------ Runner::run

\* A run that prints a banner line before the first Action.
RunPrintsBanner ==
    /\ pc = "build"
    /\ \E p \in BOOLEAN : pretend' = p
    /\ iter' = actions
    /\ cleanups' = <<>>
    /\ out' = Append(out, <<"banner">>)
    /\ pc' = "loop"
    /\ UNCHANGED <<actions, other, nextId, err, ret, performed, succeeded, cleaned, log, exceptRunner>>

\* run(self, pretend): let mut cleanups = vec![]; self.actions.into_iter().
\* actions is left as it was, as the record of what this run was given.
Run ==
    /\ pc = "build"
    /\ \E p \in BOOLEAN : pretend' = p
    /\ iter' = actions
    /\ cleanups' = <<>>
    /\ pc' = "loop"
    /\ UNCHANGED <<actions, other, nextId, err, ret, performed, succeeded, cleaned, out, log, exceptRunner>>

\* A pretend iteration that calls perform as well as describing.
LoopPretendPerforms ==
    /\ pc = "loop"
    /\ iter # <<>>
    /\ pretend
    /\ out' = Append(out, Describe(Head(iter)))
    /\ performed' = Append(performed, Head(iter).id)
    /\ iter' = Tail(iter)
    /\ UNCHANGED <<actions, other, nextId, pc, pretend, cleanups, err, ret,
                   succeeded, cleaned, log, exceptRunner>>

\* One iteration of the for loop, pretend = true.
LoopPretend ==
    /\ pc = "loop"
    /\ iter # <<>>
    /\ pretend
    /\ out' = Append(out, Describe(Head(iter)))
    /\ iter' = Tail(iter)
    /\ UNCHANGED <<actions, other, nextId, pc, pretend, cleanups, err, ret,
                   performed, succeeded, cleaned, log, exceptRunner>>

\* One iteration of the for loop, pretend = false, perform returns Ok(()).
LoopPerformOk ==
    /\ pc = "loop"
    /\ iter # <<>>
    /\ ~pretend
    /\ ~Head(iter).pf
    /\ performed' = Append(performed, Head(iter).id)
    /\ succeeded' = Append(succeeded, Head(iter).id)
    /\ cleanups' = VecPush(cleanups, Head(iter))
    /\ iter' = Tail(iter)
    /\ UNCHANGED <<actions, other, nextId, pc, pretend, err, ret, cleaned, out, log, exceptRunner>>

\* A failing perform that is logged without ending the loop.
LoopPerformErrContinues ==
    /\ pc = "loop"
    /\ iter # <<>>
    /\ ~pretend
    /\ Head(iter).pf
    /\ performed' = Append(performed, Head(iter).id)
    /\ log' = Append(log, PerformErr(Head(iter)))
    /\ err' = PerformErr(Head(iter))
    /\ iter' = Tail(iter)
    /\ UNCHANGED <<actions, other, nextId, pc, pretend, cleanups, ret, succeeded, cleaned, out, exceptRunner>>

\* One iteration of the for loop, pretend = false, perform returns Err(err):
\* the error is logged and run_cleanups(cleanups) is entered.
LoopPerformErr ==
    /\ pc = "loop"
    /\ iter # <<>>
    /\ ~pretend
    /\ Head(iter).pf
    /\ performed' = Append(performed, Head(iter).id)
    /\ log' = Append(log, PerformErr(Head(iter)))
    /\ err' = PerformErr(Head(iter))
    /\ iter' = Tail(iter)
    /\ pc' = "cleanup"
    /\ UNCHANGED <<actions, other, nextId, pretend, cleanups, ret, succeeded, cleaned, out, exceptRunner>>

\* The iterator is exhausted: Ok(()).
LoopEnd ==
    /\ pc = "loop"
    /\ iter = <<>>
    /\ ret' = Ok
    /\ pc' = "done"
    /\ UNCHANGED <<actions, other, nextId, pretend, iter, cleanups, err,
                   performed, succeeded, cleaned, out, log, exceptRunner>>

\* --------------------------------------------------- Runner::run_cleanups

\* A pop that takes the oldest element instead of the newest.
VecPopFront(v) == [item |-> Head(v), rest |-> Tail(v)]

\* cleanups.pop(): the last element and the rest.
VecPop(v) == [item |-> Last(v), rest |-> Front(v)]

\* A cleanup pass that gives up at the first cleanup error.
CleanupStepStopsOnError ==
    /\ pc = "cleanup"
    /\ cleanups # <<>>
    /\ LET p == VecPop(cleanups) IN
          /\ cleanups' = IF p.item.cf THEN <<>> ELSE p.rest
          /\ cleaned' = Append(cleaned, p.item.id)
          /\ log' = IF p.item.cf THEN Append(log, CleanupErr(p.item)) ELSE log
    /\ UNCHANGED <<actions, other, nextId, pc, pretend, iter, err, ret,
                   performed, succeeded, out, exceptRunner>>

\* One iteration of while let Some(mut action) = cleanups.pop().
CleanupStep ==
    /\ pc = "cleanup"
    /\ cleanups # <<>>
    /\ LET p == VecPop(cleanups) IN
          /\ cleanups' = p.rest
          /\ cleaned' = Append(cleaned, p.item.id)
          /\ log' = IF p.item.cf THEN Append(log, CleanupErr(p.item)) ELSE log
    /\ UNCHANGED <<actions, other, nextId, pc, pretend, iter, err, ret,
                   performed, succeeded, out, exceptRunner>>

\* A run that returns the error logged last, which may be a cleanup error.
CleanupEndReturnsLastLogged ==
    /\ pc = "cleanup"
    /\ cleanups = <<>>
    /\ ret' = Err(Last(log))
    /\ pc' = "done"
    /\ UNCHANGED <<actions, other, nextId, pretend, iter, cleanups, err,
                   performed, succeeded, cleaned, out, log, exceptRunner>>

\* cleanups.pop() is None: run_cleanups returns, and run returns Err(err).
CleanupEnd ==
    /\ pc = "cleanup"
    /\ cleanups = <<>>
    /\ ret' = Err(err)
    /\ pc' = "done"
    /\ UNCHANGED <<actions, other, nextId, pretend, iter, cleanups, err,
                   performed, succeeded, cleaned, out, log, exceptRunner>>

\* =================================================================== zfs.rs

\* Names are sequences of characters, so that prefixes and suffixes are
\* computed as the code computes them.
SourceArg == <<"s">>
DestArg == <<"d", "d">>

Filesystem(name, snaps, mount) == [name |-> name, snaps |-> snaps, mount |-> mount]

\* Snapshot names; a snapshot list is in creation order.
SnapNames == {1, 2, 3}

SnapLists ==
    {l \in UNION {[1..n -> SnapNames] : n \in 0..MaxSnaps} :
        \A i, j \in 1..Len(l) : i < j => l[i] < l[j]}

\* s.starts_with(p)
StartsWith(s, p) == Len(s) >= Len(p) /\ SubSeq(s, 1, Len(p)) = p

\* &s[n..]
SliceFrom(s, n) == SubSeq(s, n + 1, Len(s))

\* s.contains(c), and Vec::contains
Contains(s, c) == \E i \in 1..Len(s) : s[i] = c

\* Regex::is_match for a pattern that is a literal string: an unanchored
\* search for the pattern in the text.
IsMatch(pat, text) ==
    \E i \in 1..(Len(text) + 1) :
        i + Len(pat) - 1 <= Len(text) /\ SubSeq(text, i, i + Len(pat) - 1) = pat

\* Exclusions::is_excluded
IsExcluded(excl, text) == \E pat \in excl : IsMatch(pat, text)

\* A filter that takes every name that starts with under.
FilteredByPrefix(filesystems, under) ==
    SelectSeq(filesystems, LAMBDA x : StartsWith(x.name, under))

\* Zfs::filtered: the regex ^under(/.*)?$ on every Filesystem, order kept.
Filtered(filesystems, under) ==
    SelectSeq(filesystems,
              LAMBDA x : x.name = under \/ StartsWith(x.name, under \o <<"/">>))

None == <<"None">>
Some(x) == <<"Some", x>>

\* dest_map.get(key) of the HashMap collected from dest_fs, keyed by
\* &d.name[dest.len()..]; a later entry of the same key replaces an earlier.
DestMapGet(dest_fs, dest, key) ==
    LET hits == {i \in 1..Len(dest_fs) : SliceFrom(dest_fs[i].name, Len(dest)) = key} IN
    IF hits = {} THEN None
    ELSE Some(dest_fs[CHOOSE i \in hits : \A j \in hits : j <= i])

\* The external commands clone issues.
EstimateCmd(source, ssnap, dsnap) ==
    [op |-> "estimate", fs |-> source, from |-> ssnap, to |-> dsnap, dest |-> None]
DoCloneCmd(source, dest, ssnap, dsnap) ==
    [op |-> "send", fs |-> source, from |-> ssnap, to |-> dsnap, dest |-> Some(dest)]
GetPropsCmd(source) ==
    [op |-> "get", fs |-> source, from |-> None, to |-> None, dest |-> None]
CreateCmd(dest) ==
    [op |-> "create", fs |-> dest, from |-> None, to |-> None, dest |-> None]

ErrDiverged == "Last dest snapshot not present in source"
ErrNoSnapshots == "Source volume has no snapshots"
ErrCommand(cmd) == <<"command failed", cmd.op>>

\* What a piece of code does when no command fails: the commands it issues,
\* in order, and its result.
Plan(cmds, res) == [cmds |-> cmds, res |-> res]

\* Zfs::make_volume: zfs get -Hp all <src>, then zfs create <props> <dest>.
MakeVolume(src, dest) ==
    Plan(<<GetPropsCmd(src.name), CreateCmd(dest.name)>>, Ok)

\* An incremental branch without the check that the destination's latest
\* snapshot is known to the source.
CloneIncrementalNoDivergedCheck(source, dest, dest_zfs, perf) ==
    LET ssnap == Last(dest.snaps) IN
    IF source.snaps = <<>>
    THEN Plan(<<>>, Err(ErrNoSnapshots))
    ELSE LET dsnap == Last(source.snaps) IN
         IF dsnap = ssnap
         THEN Plan(<<>>, Ok)
         ELSE Plan(<<EstimateCmd(source.name, Some(ssnap), dsnap)>>
                   \o (IF perf
                       THEN <<DoCloneCmd(source.name, dest.name, Some(ssnap), dsnap)>>
                       ELSE <<>>),
                   Ok)

\* An incremental branch without the check that the destination is up to
\* date.
CloneIncrementalNoUpToDateCheck(source, dest, dest_zfs, perf) ==
    LET ssnap == Last(dest.snaps) IN
    IF ~Contains(source.snaps, ssnap)
    THEN Plan(<<>>, Err(ErrDiverged))
    ELSE IF source.snaps = <<>>
    THEN Plan(<<>>, Err(ErrNoSnapshots))
    ELSE LET dsnap == Last(source.snaps) IN
         Plan(<<EstimateCmd(source.name, Some(ssnap), dsnap)>>
              \o (IF perf
                  THEN <<DoCloneCmd(source.name, dest.name, Some(ssnap), dsnap)>>
                  ELSE <<>>),
              Ok)

\* An incremental branch that sends the latest snapshot in full.
CloneIncrementalSendsFull(source, dest, dest_zfs, perf) ==
    LET ssnap == Last(dest.snaps) IN
    IF ~Contains(source.snaps, ssnap)
    THEN Plan(<<>>, Err(ErrDiverged))
    ELSE IF source.snaps = <<>>
    THEN Plan(<<>>, Err(ErrNoSnapshots))
    ELSE LET dsnap == Last(source.snaps) IN
         IF dsnap = ssnap
         THEN Plan(<<>>, Ok)
         ELSE Plan(<<EstimateCmd(source.name, None, dsnap)>>
                   \o (IF perf
                       THEN <<DoCloneCmd(source.name, dest.name, None, dsnap)>>
                       ELSE <<>>),
                   Ok)

\* Zfs::clone_one, if let Some(ssnap) = dest.snaps.last(): the destination
\* holds snapshots, and is extended from its latest one.
CloneIncremental(source, dest, dest_zfs, perf) ==
    LET ssnap == Last(dest.snaps) IN
    IF ~Contains(source.snaps, ssnap)
    THEN Plan(<<>>, Err(ErrDiverged))
    ELSE IF source.snaps = <<>>
    THEN Plan(<<>>, Err(ErrNoSnapshots))
    ELSE LET dsnap == Last(source.snaps) IN
         IF dsnap = ssnap
         THEN Plan(<<>>, Ok)
         ELSE Plan(<<EstimateCmd(source.name, Some(ssnap), dsnap)>>
                   \o (IF perf
                       THEN <<DoCloneCmd(source.name, dest.name, Some(ssnap), dsnap)>>
                       ELSE <<>>),
                   Ok)

\* A full clone that seeds the destination with the source's latest snapshot
\* only.
CloneFullFromLatest(source, dest, dest_zfs, perf) ==
    IF source.snaps = <<>>
    THEN Plan(<<>>, Err(ErrNoSnapshots))
    ELSE LET last == Last(source.snaps) IN
         Plan(<<EstimateCmd(source.name, None, last),
                DoCloneCmd(source.name, dest.name, None, last)>>,
              Ok)

\* Zfs::clone_one, else: the destination holds no snapshot.  A full clone of
\* the source's first snapshot (do_clone is called whatever perform is), then
\* an incremental one from it to the last.
\* A full branch that seeds the destination and leaves the rest for later.
CloneFullSeedsOnly(source, dest, dest_zfs, perf) ==
    IF source.snaps = <<>>
    THEN Plan(<<>>, Err(ErrNoSnapshots))
    ELSE LET first == Head(source.snaps) IN
         Plan(<<EstimateCmd(source.name, None, first),
                DoCloneCmd(source.name, dest.name, None, first)>>,
              Ok)

CloneFull(source, dest, dest_zfs, perf) ==
    IF source.snaps = <<>>
    THEN Plan(<<>>, Err(ErrNoSnapshots))
    ELSE LET first == Head(source.snaps)
             last == Last(source.snaps) IN
         Plan(<<EstimateCmd(source.name, None, first),
                DoCloneCmd(source.name, dest.name, None, first)>>
              \o (IF first # last
                  THEN <<EstimateCmd(source.name, Some(first), last)>>
                       \o (IF perf
                           THEN <<DoCloneCmd(source.name, dest.name, Some(first), last)>>
                           ELSE <<>>)
                  ELSE <<>>),
              Ok)

\* Zfs::clone_one
CloneOne(source, dest, dest_zfs, perf) ==
    IF dest.snaps # <<>>
    THEN CloneIncremental(source, dest, dest_zfs, perf)
    ELSE CloneFull(source, dest, dest_zfs, perf)

\* p, and then q if p succeeded (the ? operator).
Then(p, q) == IF p.res = Ok THEN Plan(p.cmds \o q.cmds, q.res) ELSE p

\* The plan p when the command at position failAt fails (none when failAt is
\* 0): the commands up to it were issued and its error is the result.
Exec(p, failAt) ==
    IF failAt = 0 THEN p
    ELSE Plan(SubSeq(p.cmds, 1, failAt), Err(ErrCommand(p.cmds[failAt])))

\* The error the specification's taxonomy calls EmptyDestination; zfs.rs
\* constructs no such error.
ErrEmptyDestination == "EmptyDestination"

\* A loop body that refuses an existing destination without snapshots.
ClonePairRejectsEmptyDest(src, source, dest, dest_fs, dest_zfs, perf) ==
    LET key == SliceFrom(src.name, Len(source))
        found == DestMapGet(dest_fs, dest, key) IN
    IF found # None
    THEN [kind |-> "existing", dest |-> found[2],
          plan |-> IF found[2].snaps = <<>>
                   THEN Plan(<<>>, Err(ErrEmptyDestination))
                   ELSE CloneOne(src, found[2], dest_zfs, perf)]
    ELSE LET destfs == Filesystem(dest \o key, <<>>, "*INVALID*") IN
         [kind |-> "fresh", dest |-> destfs,
          plan |-> Then(IF perf THEN MakeVolume(src, destfs) ELSE Plan(<<>>, Ok),
                        CloneOne(src, destfs, dest_zfs, perf))]

\* The body of the for loop of clone for one source Filesystem that is
\* neither excluded nor a bookmark.
ClonePair(src, source, dest, dest_fs, dest_zfs, perf) ==
    LET key == SliceFrom(src.name, Len(source))
        found == DestMapGet(dest_fs, dest, key) IN
    IF found # None
    THEN [kind |-> "existing", dest |-> found[2],
          plan |-> CloneOne(src, found[2], dest_zfs, perf)]
    ELSE LET destfs == Filesystem(dest \o key, <<>>, "*INVALID*") IN
         [kind |-> "fresh", dest |-> destfs,
          plan |-> Then(IF perf THEN MakeVolume(src, destfs) ELSE Plan(<<>>, Ok),
                        CloneOne(src, destfs, dest_zfs, perf))]

\* The inventories clone is called on.  The source pool holds s, possibly its
\* child s/a and a bookmark of it, possibly its child s/c, and sb, which is
\* outside the subtree s; the destination pool holds dd and dd/a, each absent
\* or present.
SourceInventories ==
    { s1 \o s2 \o s3 \o s4 \o s5 :
        s1 \in {<<Filesystem(<<"s">>, l, "/s")>> : l \in SnapLists},
        s2 \in {<<>>} \cup {<<Filesystem(<<"s", "/", "a">>, l, "/s/a")>> : l \in SnapLists},
        s3 \in {<<>>, <<Filesystem(<<"s", "/", "a", "#", "k">>, <<>>, "-")>>},
        s4 \in {<<>>, <<Filesystem(<<"s", "/", "c">>, <<1>>, "/s/c")>>},
        s5 \in {<<Filesystem(<<"s", "b">>, <<1>>, "/sb")>>} }

DestInventories ==
    { d1 \o d2 :
        d1 \in {<<>>} \cup {<<Filesystem(<<"d", "d">>, l, "none")>> : l \in SnapLists},
        d2 \in {<<>>} \cup {<<Filesystem(<<"d", "d", "/", "a">>, l, "none")>> : l \in SnapLists} }

ExcludeSets == {{}, {<<"/", "a">>}}

InitCloneIdle ==
    /\ srcFs = <<>>
    /\ dstFs = <<>>
    /\ perform = FALSE
    /\ excludes = {}
    /\ cpc = "idle"
    /\ cIdx = 0
    /\ cDone = <<>>
    /\ cRet = "none"

\* clone is entered: the inventories and the arguments are given.
InitClone ==
    /\ srcFs \in SourceInventories
    /\ dstFs \in DestInventories
    /\ perform \in BOOLEAN
    /\ excludes \in ExcludeSets
    /\ cpc = "loop"
    /\ cIdx = 1
    /\ cDone = <<>>
    /\ cRet = "none"

source_fs == Filtered(srcFs, SourceArg)
dest_fs == Filtered(dstFs, DestArg)

\* A skip that leaves the loop instead of continuing.
CloneSkipReturns ==
    /\ cpc = "loop"
    /\ cIdx <= Len(source_fs)
    /\ LET src == source_fs[cIdx] IN
          /\ IsExcluded(excludes, src.name) \/ Contains(src.name, "#")
          /\ cDone' = Append(cDone, [src |-> src, kind |-> "skip", dest |-> None,
                                     cmds |-> <<>>, res |-> Ok,
                                     failed |-> FALSE])
    /\ cRet' = Ok
    /\ cpc' = "done"
    /\ UNCHANGED <<srcFs, dstFs, perform, excludes, cIdx, exceptClone>>

\* for src in &source_fs: excluded, or a bookmark: continue.
CloneSkip ==
    /\ cpc = "loop"
    /\ cIdx <= Len(source_fs)
    /\ LET src == source_fs[cIdx] IN
          /\ IsExcluded(excludes, src.name) \/ Contains(src.name, "#")
          /\ cDone' = Append(cDone, [src |-> src, kind |-> "skip", dest |-> None,
                                     cmds |-> <<>>, res |-> Ok,
                                     failed |-> FALSE])
    /\ cIdx' = cIdx + 1
    /\ UNCHANGED <<srcFs, dstFs, perform, excludes, cpc, cRet, exceptClone>>

\* A loop that goes on to the next source Filesystem after an error.
ClonePairStepContinues ==
    /\ cpc = "loop"
    /\ cIdx <= Len(source_fs)
    /\ LET src == source_fs[cIdx]
           pair == ClonePair(src, SourceArg, DestArg, dest_fs, "dest_zfs", perform) IN
          /\ ~IsExcluded(excludes, src.name)
          /\ ~Contains(src.name, "#")
          /\ \E failAt \in 0..Len(pair.plan.cmds) :
                LET done == Exec(pair.plan, failAt) IN
                   cDone' = Append(cDone, [src |-> src, kind |-> pair.kind,
                                           dest |-> pair.dest,
                                           cmds |-> done.cmds, res |-> done.res,
                                           failed |-> failAt # 0])
    /\ cIdx' = cIdx + 1
    /\ UNCHANGED <<srcFs, dstFs, perform, excludes, cpc, cRet, exceptClone>>

\* for src in &source_fs: the pair is cloned; an error returns from clone.
ClonePairStep ==
    /\ cpc = "loop"
    /\ cIdx <= Len(source_fs)
    /\ LET src == source_fs[cIdx]
           pair == ClonePair(src, SourceArg, DestArg, dest_fs, dstFs, perform) IN
          /\ ~IsExcluded(excludes, src.name)
          /\ ~Contains(src.name, "#")
          /\ \E failAt \in 0..Len(pair.plan.cmds) :
                LET done == Exec(pair.plan, failAt) IN
                   /\ cDone' = Append(cDone, [src |-> src, kind |-> pair.kind,
                                              dest |-> pair.dest,
                                              cmds |-> done.cmds, res |-> done.res,
                                              failed |-> failAt # 0])
                   /\ IF done.res = Ok
                      THEN /\ cIdx' = cIdx + 1
                           /\ UNCHANGED <<cpc, cRet>>
                      ELSE /\ cRet' = done.res
                           /\ cpc' = "done"
                           /\ UNCHANGED cIdx
    /\ UNCHANGED <<srcFs, dstFs, perform, excludes, exceptClone>>

\* The loop is over: Ok(()).
CloneEnd ==
    /\ cpc = "loop"
    /\ cIdx > Len(source_fs)
    /\ cRet' = Ok
    /\ cpc' = "done"
    /\ UNCHANGED <<srcFs, dstFs, perform, excludes, cIdx, cDone, exceptClone>>

\* ------------------------------------------- Zfs::estimate_size, do_clone

\* A line of command output is a sequence of tokens; Tab is the character the
\* code splits on, every other token stands for a run of other characters.
Tab == "\t"

\* str::split('\t'): the pieces between the tabs, empty pieces included.
RECURSIVE Split(_)
Split(line) ==
    IF line = <<>>
    THEN << <<>> >>
    ELSE LET rest == Split(Tail(line)) IN
         IF Head(line) = Tab
         THEN << <<>> >> \o rest
         ELSE << <<Head(line)>> \o Head(rest) >> \o Tail(rest)

Digits == <<"0", "1", "2", "3", "4", "5", "6", "7", "8", "9">>

IsDigit(c) == \E i \in 1..Len(Digits) : Digits[i] = c

DigitValue ==
    [d \in {Digits[i] : i \in 1..Len(Digits)} |->
        (CHOOSE i \in 1..Len(Digits) : Digits[i] = d) - 1]

RECURSIVE DecimalValue(_)
DecimalValue(field) ==
    IF field = <<>>
    THEN 0
    ELSE 10 * DecimalValue(Front(field)) + DigitValue[Last(field)]

\* str::parse::<usize>: Some(n) for a non-empty run of digits, None otherwise.
ParseUsize(field) ==
    IF field # <<>> /\ \A i \in 1..Len(field) : field[i] \in DOMAIN DigitValue
    THEN Some(DecimalValue(field))
    ELSE None

OkSize(n) == <<"Ok", n>>
Panic == <<"panic">>
ErrInvalidEstimateLine(line) == <<"Invalid line from zfs send size estimate", line>>
ErrEstimateCommand == <<"command failed", "estimate">>

\* A scan that takes every line it cannot use as no estimate.
RECURSIVE EstimateScanLenient(_)
EstimateScanLenient(lines) ==
    IF lines = <<>>
    THEN OkSize(0)
    ELSE LET fields == Split(Head(lines)) IN
         IF Len(fields) < 2
         THEN OkSize(0)
         ELSE IF fields[1] # <<"size">>
         THEN EstimateScanLenient(Tail(lines))
         ELSE IF ParseUsize(fields[2]) = None
         THEN OkSize(0)
         ELSE OkSize(ParseUsize(fields[2])[2])

\* Zfs::estimate_size, the for loop over the lines of the output: a line with
\* fewer than 2 fields is an error, a line whose first field is not "size" is
\* passed over, the first size line gives the result, and unwrap panics when
\* its second field is not a number; without a size line the result is 0.
RECURSIVE EstimateScan(_)
EstimateScan(lines) ==
    IF lines = <<>>
    THEN OkSize(0)
    ELSE LET fields == Split(Head(lines)) IN
         IF Len(fields) < 2
         THEN Err(ErrInvalidEstimateLine(Head(lines)))
         ELSE IF fields[1] # <<"size">>
         THEN EstimateScan(Tail(lines))
         ELSE IF ParseUsize(fields[2]) = None
         THEN Panic
         ELSE OkSize(ParseUsize(fields[2])[2])

\* Zfs::estimate_size: checked_output()? fails on a non-zero exit status.
EstimateSize(status, lines) ==
    IF ~status THEN Err(ErrEstimateCommand) ELSE EstimateScan(lines)

MaxFields == 2
MaxLines == 2

FieldValues == {<<"size">>, <<"7">>, <<"x">>}

\* The line whose tab-separated fields are fields.
RECURSIVE JoinTabs(_)
JoinTabs(fields) ==
    IF Len(fields) = 1
    THEN Head(fields)
    ELSE Head(fields) \o <<Tab>> \o JoinTabs(Tail(fields))

\* The lines the size-estimate command may print: the empty line and the
\* lines of up to MaxFields fields.
EstimateLines ==
    {<<>>} \cup UNION {{JoinTabs(f) : f \in [1..n -> FieldValues]} : n \in 1..MaxFields}

EstimateOutputs ==
    UNION {[1..n -> EstimateLines] : n \in 0..MaxLines}

Stages == {"send", "pv", "receive"}

Event(ev, stage, arg) == [ev |-> ev, stage |-> stage, arg |-> arg]

ErrSpawn(stage) == <<"spawn failed", stage>>
ErrSend == "zfs send error"
ErrPv == "pv error"
ErrReceive == "zfs receive error"

InitXferIdle ==
    /\ xpc = "idle"
    /\ xOut = <<>>
    /\ xSize = None
    /\ xExit = [st \in Stages |-> "none"]
    /\ xEvents = <<>>
    /\ xRet = Pending

\* clone_one has a transfer to make and perform is set: the size-estimate
\* command will print xOut.
InitXfer ==
    /\ xpc = "estimate"
    /\ xOut \in EstimateOutputs
    /\ xSize = None
    /\ xExit = [st \in Stages |-> "none"]
    /\ xEvents = <<>>
    /\ xRet = Pending

\* let size = self.estimate_size(..)?; an Err returns from clone_one, a panic
\* unwinds out of it.
Estimate ==
    /\ xpc = "estimate"
    /\ \E status \in BOOLEAN :
          LET r == EstimateSize(status, xOut) IN
             /\ xEvents' = Append(xEvents, Event("run", "estimate", status))
             /\ IF r[1] = "Ok"
                THEN /\ xSize' = Some(r[2])
                     /\ xpc' = "spawn_send"
                     /\ UNCHANGED xRet
                ELSE /\ xRet' = r
                     /\ xpc' = "done"
                     /\ UNCHANGED xSize
    /\ UNCHANGED <<xOut, xExit, exceptXfer>>

\* Command::spawn()? of one stage: the child runs, or the error returns from
\* do_clone.
Spawn(stage, arg, next) ==
    /\ \E ok \in BOOLEAN :
          IF ok
          THEN /\ xEvents' = Append(xEvents, Event("spawn", stage, arg))
               /\ xExit' = [xExit EXCEPT ![stage] = "running"]
               /\ xpc' = next
               /\ UNCHANGED xRet
          ELSE /\ xRet' = Err(ErrSpawn(stage))
               /\ xpc' = "done"
               /\ UNCHANGED <<xEvents, xExit>>
    /\ UNCHANGED <<xOut, xSize, exceptXfer>>

\* let mut sender = cmd.spawn()?;
SpawnSend ==
    /\ xpc = "spawn_send"
    /\ Spawn("send", None, "spawn_pv")

\* A do_clone that waits for the sender before it starts pv.
SpawnPvAfterSenderExit ==
    /\ xpc = "spawn_pv"
    /\ xExit["send"] \in {"ok", "fail"}
    /\ xEvents' = xEvents \o <<Event("wait", "send", xExit["send"]),
                               Event("spawn", "pv", xSize)>>
    /\ xExit' = [xExit EXCEPT !["pv"] = "running"]
    /\ xpc' = "spawn_recv"
    /\ UNCHANGED <<xOut, xSize, xRet, exceptXfer>>

\* let mut pv = Command::new("pv").args(&["-s", &size.to_string()])...spawn()?;
SpawnPv ==
    /\ xpc = "spawn_pv"
    /\ Spawn("pv", xSize, "spawn_recv")

\* let mut receiver = cmd.args(&["receive", ...]).spawn()?;
SpawnReceive ==
    /\ xpc = "spawn_recv"
    /\ Spawn("receive", None, "wait_send")

\* A running child exits, with status zero or not, whenever it does; exits
\* after do_clone has returned are not followed.
StageExit ==
    \E stage \in Stages, status \in {"ok", "fail"} :
        /\ xpc # "done"
        /\ xExit[stage] = "running"
        /\ xExit' = [xExit EXCEPT ![stage] = status]
        /\ UNCHANGED <<xpc, xOut, xSize, xEvents, xRet, exceptXfer>>

\* if !child.wait()?.success() { return Err(anyhow!(error)); }: wait blocks
\* until the child has exited.  An I/O error of wait itself is left out.
Wait(stage, error, next) ==
    /\ xExit[stage] \in {"ok", "fail"}
    /\ xEvents' = Append(xEvents, Event("wait", stage, xExit[stage]))
    /\ IF xExit[stage] = "ok"
       THEN /\ xpc' = next
            /\ xRet' = IF next = "done" THEN Ok ELSE xRet
       ELSE /\ xpc' = "done"
            /\ xRet' = Err(error)
    /\ UNCHANGED <<xOut, xSize, xExit, exceptXfer>>

\* A wait on the sender that does not look at its exit status.
WaitSendIgnoresStatus ==
    /\ xpc = "wait_send"
    /\ xExit["send"] \in {"ok", "fail"}
    /\ xEvents' = Append(xEvents, Event("wait", "send", xExit["send"]))
    /\ xpc' = "wait_pv"
    /\ UNCHANGED <<xOut, xSize, xExit, xRet, exceptXfer>>

WaitSend ==
    /\ xpc = "wait_send"
    /\ Wait("send", ErrSend, "wait_pv")

WaitPv ==
    /\ xpc = "wait_pv"
    /\ Wait("pv", ErrPv, "wait_recv")

\* The last wait; Ok(()) follows it.
WaitReceive ==
    /\ xpc = "wait_recv"
    /\ Wait("receive", ErrReceive, "done")

\* -------------------------------------------------------- Zfs::make_volume

ErrPropLine(line) == <<"zfs get line doesn't have 4 fields", line>>
ErrGetCommand == <<"command failed", "get">>
ErrCreateCommand == <<"command failed", "create">>

\* format!("{}={}", fields[1], fields[2])
PropArg(property, value) == property \o <<"=">> \o value

\* A property scan that drops nothing but what is not local or received.
RECURSIVE VolumePropsKeepsMountpoint(_, _)
VolumePropsKeepsMountpoint(lines, props) ==
    IF lines = <<>>
    THEN <<"Ok", props>>
    ELSE LET fields == Split(Head(lines)) IN
         IF Len(fields) # 4
         THEN Err(ErrPropLine(Head(lines)))
         ELSE IF fields[4] = <<"local">> \/ fields[4] = <<"received">>
         THEN VolumePropsKeepsMountpoint(Tail(lines),
                  props \o << <<"-o">>, PropArg(fields[2], fields[3]) >>)
         ELSE VolumePropsKeepsMountpoint(Tail(lines), props)

\* Zfs::make_volume, the for loop over the lines of zfs get -Hp all: a line
\* that does not have 4 fields is an error; the mountpoint property is passed
\* over; a property whose source is local or received adds "-o" and
\* property=value to props.
RECURSIVE VolumeProps(_, _)
VolumeProps(lines, props) ==
    IF lines = <<>>
    THEN <<"Ok", props>>
    ELSE LET fields == Split(Head(lines)) IN
         IF Len(fields) # 4
         THEN Err(ErrPropLine(Head(lines)))
         ELSE IF fields[2] = <<"mountpoint">>
         THEN VolumeProps(Tail(lines), props)
         ELSE IF fields[4] = <<"local">> \/ fields[4] = <<"received">>
         THEN VolumeProps(Tail(lines),
                  props \o << <<"-o">>, PropArg(fields[2], fields[3]) >>)
         ELSE VolumeProps(Tail(lines), props)

MaxPropLines == 2

PropNames == {"mountpoint", "atime", "compression"}
PropOrigins == {"local", "received", "inherited from s", "default", "-"}

\* The lines zfs get prints, name property value source, and two lines that
\* do not have 4 fields.
PropLines ==
    {<<"s", Tab, p, Tab, "on", Tab, o>> : p \in PropNames, o \in PropOrigins}
    \cup {<<"s", Tab, "atime", Tab, "on">>,
          <<"s", Tab, "atime", Tab, "on", Tab, "local", Tab, "x">>}

PropListings ==
    UNION {[1..n -> PropLines] : n \in 0..MaxPropLines}

InitVolIdle ==
    /\ vpc = "idle"
    /\ vOut = <<>>
    /\ vArgs = None
    /\ vRet = Pending

\* make_volume(src, dest) is entered; zfs get will print vOut.
InitVol ==
    /\ vpc = "get"
    /\ vOut \in PropListings
    /\ vArgs = None
    /\ vRet = Pending

\* zfs get -Hp all src.name with checked_output()?, then the scan of its
\* output; the create command is built from props and dest.name.
VolumeGet ==
    /\ vpc = "get"
    /\ \E status \in BOOLEAN :
          LET r == IF status THEN VolumeProps(vOut, <<>>) ELSE Err(ErrGetCommand) IN
             IF r[1] = "Ok"
             THEN /\ vArgs' = Some(<< <<"create">> >> \o r[2] \o <<DestArg>>)
                  /\ vpc' = "create"
                  /\ UNCHANGED vRet
             ELSE /\ vRet' = r
                  /\ vpc' = "done"
                  /\ UNCHANGED vArgs
    /\ UNCHANGED <<vOut, exceptVol>>

\* zfs create props dest.name with checked_run()?, then Ok(()).
VolumeCreate ==
    /\ vpc = "create"
    /\ \E status \in BOOLEAN :
          vRet' = IF status THEN Ok ELSE Err(ErrCreateCommand)
    /\ vpc' = "done"
    /\ UNCHANGED <<vOut, vArgs, exceptVol>>

\* ---------------------------------------- Zfs::snap_number, prune_hanoi

\* const PRUNE_KEEP: usize = 10;
PRUNE_KEEP == 10

\* Zfs.prefix
SnapPrefix == <<"p">>

\* {:04}: at least four decimal digits, zero padded.
RECURSIVE DecimalDigits(_)
DecimalDigits(n) ==
    IF n < 10
    THEN <<Digits[n + 1]>>
    ELSE DecimalDigits(n \div 10) \o <<Digits[(n % 10) + 1]>>

Pad4(n) ==
    LET d == DecimalDigits(n) IN
    [i \in 1..(4 - Len(d)) |-> "0"] \o d

\* Zfs::snap_name: prefix, the index and the time; the time is one digit here.
SnapName(index) == SnapPrefix \o Pad4(index) \o <<"-", "1">>

\* Zfs::snap_number: snap_re is ^prefix(\d{4})-([-\d]+)$ and the number is
\* the first group parsed as usize.
SnapNumber(text) ==
    LET rest == SliceFrom(text, Len(SnapPrefix)) IN
    IF /\ StartsWith(text, SnapPrefix)
       /\ Len(rest) >= 6
       /\ \A i \in 1..4 : IsDigit(rest[i])
       /\ rest[5] = "-"
       /\ \A i \in 6..Len(rest) : IsDigit(rest[i]) \/ rest[i] = "-"
    THEN Some(DecimalValue(SubSeq(rest, 1, 4)))
    ELSE None

\* A count that looks at the lowest bit only.
CountOnesLowBit(n) == n % 2

\* usize::count_ones
RECURSIVE CountOnes(_)
CountOnes(n) == IF n = 0 THEN 0 ELSE (n % 2) + CountOnes(n \div 2)

\* fs.snaps.iter().filter_map(|sn| self.snap_number(sn).map(|num| (sn, num)))
RECURSIVE NumberedSnaps(_)
NumberedSnaps(snaps) ==
    IF snaps = <<>>
    THEN <<>>
    ELSE (IF SnapNumber(Head(snaps)) # None
          THEN << <<Head(snaps), SnapNumber(Head(snaps))[2]>> >>
          ELSE <<>>)
         \o NumberedSnaps(Tail(snaps))

\* format!("{}@{}", fs_name, name)
PruneName(fs_name, name) == fs_name \o <<"@">> \o name

\* A scan that prunes every snapshot beyond the ones kept.
RECURSIVE HanoiScanKeepsWindowOnly(_, _, _, _, _)
HanoiScanKeepsWindowOnly(snaps, index, keep, pops, fs_name) ==
    IF snaps = <<>>
    THEN <<>>
    ELSE IF index < keep
    THEN HanoiScanKeepsWindowOnly(Tail(snaps), index + 1, keep, pops, fs_name)
    ELSE <<PruneName(fs_name, Head(snaps)[1])>>
         \o HanoiScanKeepsWindowOnly(Tail(snaps), index + 1, keep, pops, fs_name)

\* A scan that has no window of snapshots it keeps.
RECURSIVE HanoiScanNoWindow(_, _, _, _, _)
HanoiScanNoWindow(snaps, index, keep, pops, fs_name) ==
    IF snaps = <<>>
    THEN <<>>
    ELSE LET bit_count == CountOnes(Head(snaps)[2]) IN
         (IF bit_count \in pops
          THEN <<PruneName(fs_name, Head(snaps)[1])>>
          ELSE <<>>)
         \o HanoiScanNoWindow(Tail(snaps), index + 1, keep, pops \cup {bit_count}, fs_name)

\* prune_hanoi, for item in snaps.iter().enumerate(): snaps is newest first;
\* the first keep items are passed over; an item whose count of one bits is in
\* pops is pushed on to_prune; the count is inserted in pops.
RECURSIVE HanoiScan(_, _, _, _, _)
HanoiScan(snaps, index, keep, pops, fs_name) ==
    IF snaps = <<>>
    THEN <<>>
    ELSE IF index < keep
    THEN HanoiScan(Tail(snaps), index + 1, keep, pops, fs_name)
    ELSE LET bit_count == CountOnes(Head(snaps)[2]) IN
         (IF bit_count \in pops
          THEN <<PruneName(fs_name, Head(snaps)[1])>>
          ELSE <<>>)
         \o HanoiScan(Tail(snaps), index + 1, keep, pops \cup {bit_count}, fs_name)

\* A selection that is left newest first.
ToPruneNewestFirst(fs, fs_name, keep) ==
    HanoiScan(Reverse(NumberedSnaps(fs.snaps)), 0, keep, {}, fs_name)

\* prune_hanoi up to to_prune.reverse(): the names to destroy, oldest first.
ToPrune(fs, fs_name, keep) ==
    Reverse(HanoiScan(Reverse(NumberedSnaps(fs.snaps)), 0, keep, {}, fs_name))

\* self.filesystems.iter().find(|fs| fs.name == fs_name)
FindFs(filesystems, fs_name) ==
    IF \E i \in 1..Len(filesystems) : filesystems[i].name = fs_name
    THEN Some(filesystems[CHOOSE i \in 1..Len(filesystems) :
                              /\ filesystems[i].name = fs_name
                              /\ \A j \in 1..(i - 1) : filesystems[j].name # fs_name])
    ELSE None

ErrVolumeNotFound(fs_name) == <<"Volume not found in zfs", fs_name>>
ErrDestroyCommand == <<"command failed", "destroy">>

MaxOld == 6

\* A snapshot name that snap_re does not match.
ManualSnap == <<"m">>

RECURSIVE SnapNamesOf(_)
SnapNamesOf(numbers) ==
    IF numbers = <<>> THEN <<>> ELSE <<SnapName(Head(numbers))>> \o SnapNamesOf(Tail(numbers))

\* The increasing sequence of the numbers of the set S.
RECURSIVE Increasing(_)
Increasing(S) ==
    IF S = {}
    THEN <<>>
    ELSE LET m == CHOOSE x \in S : \A y \in S : x <= y IN
         <<m>> \o Increasing(S \ {m})

InsertAt(s, i, x) == SubSeq(s, 1, i) \o <<x>> \o SubSeq(s, i + 1, Len(s))

\* The snapshot lists prune_hanoi is run on, oldest first: snapshots taken
\* with increasing indices, any of the MaxOld + 1 oldest indices missing, the
\* PRUNE_KEEP - 1 newest present, and possibly one snapshot of another name
\* anywhere among them.
PruneSnapLists ==
    LET taken == {SnapNamesOf(Increasing(old \cup ((MaxOld + 1)..(MaxOld + PRUNE_KEEP - 1)))) :
                     old \in SUBSET (0..MaxOld)} IN
    taken \cup UNION {{InsertAt(l, i, ManualSnap) : i \in 0..Len(l)} : l \in taken}

PruneFsName == <<"f">>

PruneInventories ==
    {<<Filesystem(<<"o">>, <<SnapName(0), SnapName(1)>>, "/o"),
       Filesystem(PruneFsName, l, "/f")>> : l \in PruneSnapLists}

InitPruneIdle ==
    /\ pFs = <<>>
    /\ pName = <<>>
    /\ pReally = FALSE
    /\ pKeep = PRUNE_KEEP
    /\ ppc = "idle"
    /\ pToPrune = <<>>
    /\ pIdx = 0
    /\ pOut = <<>>
    /\ pCmds = <<>>
    /\ pRet = Pending

\* prune_hanoi(fs_name, really) is entered.
InitPrune ==
    /\ pFs \in PruneInventories
    /\ pName \in {PruneFsName, <<"g">>}
    /\ pReally \in BOOLEAN
    /\ pKeep = PRUNE_KEEP
    /\ ppc = "select"
    /\ pToPrune = <<>>
    /\ pIdx = 0
    /\ pOut = <<>>
    /\ pCmds = <<>>
    /\ pRet = Pending

MaxHanoiIndex == 7
MaxKeep == 2

\* prune_hanoi with the number of snapshots kept as a parameter: snapshots
\* with any of the indices 0..MaxHanoiIndex, and 0..MaxKeep snapshots kept.
InitHanoi ==
    /\ pFs \in {<<Filesystem(PruneFsName, SnapNamesOf(Increasing(S)), "/f")>> :
                   S \in SUBSET (0..MaxHanoiIndex)}
    /\ pName = PruneFsName
    /\ pReally \in BOOLEAN
    /\ pKeep \in 0..MaxKeep
    /\ ppc = "select"
    /\ pToPrune = <<>>
    /\ pIdx = 0
    /\ pOut = <<>>
    /\ pCmds = <<>>
    /\ pRet = Pending

\* A dry run that prints nothing.
PruneWouldSilent ==
    /\ ppc = "loop"
    /\ pIdx <= Len(pToPrune)
    /\ ~pReally
    /\ pIdx' = pIdx + 1
    /\ UNCHANGED <<pFs, pName, pReally, pKeep, ppc, pToPrune, pOut, pCmds, pRet, exceptPrune>>

\* The Filesystem is looked up and to_prune is computed.
PruneSelect ==
    /\ ppc = "select"
    /\ LET fs == FindFs(pFs, pName) IN
          IF fs = None
          THEN /\ pRet' = Err(ErrVolumeNotFound(pName))
               /\ ppc' = "done"
               /\ UNCHANGED <<pToPrune, pIdx>>
          ELSE /\ pToPrune' = ToPrune(fs[2], pName, pKeep)
               /\ pIdx' = 1
               /\ ppc' = "loop"
               /\ UNCHANGED pRet
    /\ UNCHANGED <<pFs, pName, pReally, pKeep, pOut, pCmds, exceptPrune>>

PruneLine(would, prune_name) == [would |-> would, name |-> prune_name]

PruneCmd(op, arg, status) == [op |-> op, arg |-> arg, status |-> status]

\* for prune_name in &to_prune with really false: the line is printed.
PruneWould ==
    /\ ppc = "loop"
    /\ pIdx <= Len(pToPrune)
    /\ ~pReally
    /\ pOut' = Append(pOut, PruneLine(TRUE, pToPrune[pIdx]))
    /\ pIdx' = pIdx + 1
    /\ UNCHANGED <<pFs, pName, pReally, pKeep, ppc, pToPrune, pCmds, pRet, exceptPrune>>

\* A loop that goes on after a destroy that failed.
PruneDestroyContinues ==
    /\ ppc = "loop"
    /\ pIdx <= Len(pToPrune)
    /\ pReally
    /\ pOut' = Append(pOut, PruneLine(FALSE, pToPrune[pIdx]))
    /\ \E status \in BOOLEAN :
          pCmds' = Append(pCmds, PruneCmd("destroy", pToPrune[pIdx], status))
    /\ pIdx' = pIdx + 1
    /\ UNCHANGED <<pFs, pName, pReally, pKeep, ppc, pToPrune, pRet, exceptPrune>>

\* for prune_name in &to_prune with really true: the line is printed and
\* zfs destroy prune_name is run with checked_run()?.
PruneDestroy ==
    /\ ppc = "loop"
    /\ pIdx <= Len(pToPrune)
    /\ pReally
    /\ pOut' = Append(pOut, PruneLine(FALSE, pToPrune[pIdx]))
    /\ \E status \in BOOLEAN :
          /\ pCmds' = Append(pCmds, PruneCmd("destroy", pToPrune[pIdx], status))
          /\ IF status
             THEN /\ pIdx' = pIdx + 1
                  /\ UNCHANGED <<ppc, pRet>>
             ELSE /\ pRet' = Err(ErrDestroyCommand)
                  /\ ppc' = "done"
                  /\ UNCHANGED pIdx
    /\ UNCHANGED <<pFs, pName, pReally, pKeep, pToPrune, exceptPrune>>

\* The loop is over: Ok(()).
PruneEnd ==
    /\ ppc = "loop"
    /\ pIdx > Len(pToPrune)
    /\ pRet' = Ok
    /\ ppc' = "done"
    /\ UNCHANGED <<pFs, pName, pReally, pKeep, pToPrune, pIdx, pOut, pCmds, exceptPrune>>

\* ------------------------------------------------- Zfs::new, SnapBuilder

\* A split at every sep, without the limit of two pieces.
RECURSIVE SplitEvery(_, _)
SplitEvery(line, sep) ==
    IF line = <<>>
    THEN << <<>> >>
    ELSE LET rest == SplitEvery(Tail(line), sep) IN
         IF Head(line) = sep
         THEN << <<>> >> \o rest
         ELSE << <<Head(line)>> \o Head(rest) >> \o Tail(rest)

\* str::splitn(2, sep): the line when sep is not in it, otherwise what is
\* before the first sep and everything after it.
SplitN2(line, sep) ==
    IF \E i \in 1..Len(line) : line[i] = sep
    THEN LET i == CHOOSE i \in 1..Len(line) :
                     line[i] = sep /\ \A j \in 1..(i - 1) : line[j] # sep IN
         <<SubSeq(line, 1, i - 1), SubSeq(line, i + 1, Len(line))>>
    ELSE <<line>>

\* SnapBuilder::push_volume
PushVolume(w, name, mount) == Append(w, Filesystem(name, <<>>, mount))

\* A push_snap that does not compare the names.
PushSnapOnLast(w, name, snap) ==
    IF Len(w) = 0
    THEN Panic
    ELSE <<"Ok", [w EXCEPT ![Len(w)].snaps = Append(@, snap)]>>

\* A push_snap that puts the snapshot in front of the others.
PushSnapInFront(w, name, snap) ==
    IF Len(w) = 0
    THEN Panic
    ELSE IF name # w[Len(w)].name
    THEN Panic
    ELSE <<"Ok", [w EXCEPT ![Len(w)].snaps = <<snap>> \o @]>>

\* SnapBuilder::push_snap: it panics when work is empty or when the last
\* Filesystem has another name.
PushSnap(w, name, snap) ==
    IF Len(w) = 0
    THEN Panic
    ELSE IF name # w[Len(w)].name
    THEN Panic
    ELSE <<"Ok", [w EXCEPT ![Len(w)].snaps = Append(@, snap)]>>

ErrListLine(line) == <<"zfs line doesn't have two fields", line>>
ErrListCommand == <<"command failed", "list">>

MaxListLines == 4

\* The lines zfs list prints: volumes v and w with their mountpoint, their
\* snapshots a and b, a snapshot whose name holds '@', a mountpoint that holds
\* a tab and a line without a tab.
ListLines ==
    {n \o <<Tab, "/m">> : n \in {<<"v">>, <<"w">>}}
    \cup {n \o <<"@", sn, Tab, "-">> : n \in {<<"v">>, <<"w">>}, sn \in {"a", "b"}}
    \cup {<<"v", "@", "a", "@", "b", Tab, "-">>,
          <<"w", Tab, "/m", Tab, "x">>,
          <<"v">>}

Listings ==
    UNION {[1..n -> ListLines] : n \in 0..MaxListLines}

InitBuildIdle ==
    /\ bpc = "idle"
    /\ bLines = <<>>
    /\ bIdx = 0
    /\ work = <<>>
    /\ bRet = Pending

\* Zfs::new is entered; zfs list will print bLines.
InitBuild ==
    /\ bpc = "list"
    /\ bLines \in Listings
    /\ bIdx = 0
    /\ work = <<>>
    /\ bRet = Pending

\* zfs list with checked_output()?, then SnapBuilder::new().
BuildList ==
    /\ bpc = "list"
    /\ \E status \in BOOLEAN :
          IF status
          THEN /\ bpc' = "lines"
               /\ bIdx' = 1
               /\ UNCHANGED bRet
          ELSE /\ bpc' = "done"
               /\ bRet' = Err(ErrListCommand)
               /\ UNCHANGED bIdx
    /\ UNCHANGED <<bLines, work, exceptBuild>>

\* The body of for line in lines(): the line is split at its first tab, its
\* first field at its first '@', and the builder is given a volume or a
\* snapshot.  A panic of push_snap unwinds out of Zfs::new.
BuildLine ==
    /\ bpc = "lines"
    /\ bIdx <= Len(bLines)
    /\ LET line == bLines[bIdx]
           fields == SplitN2(line, Tab)
           vols == SplitN2(fields[1], "@")
           pushed == IF Len(vols) = 1
                     THEN <<"Ok", PushVolume(work, vols[1], fields[2])>>
                     ELSE PushSnap(work, vols[1], vols[2]) IN
          IF Len(fields) # 2
          THEN /\ bRet' = Err(ErrListLine(line))
               /\ bpc' = "done"
               /\ UNCHANGED <<bIdx, work>>
          ELSE IF pushed = Panic
          THEN /\ bRet' = Panic
               /\ bpc' = "done"
               /\ UNCHANGED <<bIdx, work>>
          ELSE /\ work' = pushed[2]
               /\ bIdx' = bIdx + 1
               /\ UNCHANGED <<bpc, bRet>>
    /\ UNCHANGED <<bLines, exceptBuild>>

\* builder.into_sets() and Ok(Zfs { filesystems: result, .. })
BuildEnd ==
    /\ bpc = "lines"
    /\ bIdx > Len(bLines)
    /\ bRet' = <<"Ok", work>>
    /\ bpc' = "done"
    /\ UNCHANGED <<bLines, bIdx, work, exceptBuild>>

\* ------------------------------- Zfs::next_under, filtered, take_snapshot

\* The number of take_snapshot calls of one behaviour.
MaxTakes == 2

\* next_under: one more than the largest number of a snapshot that matches
\* snap_re among the Filesystems filtered(under) returns, 0 when there is none.
NextUnder(filesystems, under) ==
    LET l == Filtered(filesystems, under)
        nums == UNION {{SnapNumber(l[i].snaps[j])[2] + 1 :
                           j \in {j \in 1..Len(l[i].snaps) :
                                     SnapNumber(l[i].snaps[j]) # None}} :
                       i \in 1..Len(l)} IN
    IF nums = {} THEN 0 ELSE CHOOSE n \in nums : \A k \in nums : k <= n

ErrSnapshotCommand == <<"command failed", "snapshot">>

\* zfs snapshot -r fs@name on the pool: every dataset that is fs or below fs
\* gets the snapshot.
PoolSnapshot(pool, fs, name) ==
    [i \in 1..Len(pool) |->
        IF pool[i].name = fs \/ StartsWith(pool[i].name, fs \o <<"/">>)
        THEN [pool[i] EXCEPT !.snaps = Append(@, name)]
        ELSE pool[i]]

\* zfs snapshot -r can succeed: fs is a dataset and no dataset it reaches has
\* a snapshot of that name.
PoolCanSnapshot(pool, fs, name) ==
    /\ \E i \in 1..Len(pool) : pool[i].name = fs
    /\ \A i \in 1..Len(pool) :
          (pool[i].name = fs \/ StartsWith(pool[i].name, fs \o <<"/">>)) =>
              ~Contains(pool[i].snaps, name)

\* The pools: t, its child t/a, t/ab and t/a/b, each absent or present, in
\* the order zfs list gives them.
SnapPools ==
    { t1 \o t2 \o t3 \o t4 :
        t1 \in {<<>>} \cup {<<Filesystem(<<"t">>, l, "/t")>> :
                   l \in {<<>>, <<SnapName(1)>>, <<SnapName(0), ManualSnap>>,
                          <<SnapName(9999)>>}},
        t2 \in {<<>>} \cup {<<Filesystem(<<"t", "/", "a">>, l, "/t/a")>> :
                   l \in {<<>>, <<SnapName(1)>>, <<SnapName(0), ManualSnap>>,
                          <<SnapName(9999)>>}},
        t3 \in {<<>>} \cup {<<Filesystem(<<"t", "/", "a", "b">>, l, "/t/ab")>> :
                   l \in {<<SnapName(2)>>, <<SnapName(9999)>>}},
        t4 \in {<<>>} \cup {<<Filesystem(<<"t", "/", "a", "/", "b">>, l, "/t/a/b")>> :
                   l \in {<<SnapName(1)>>, <<SnapName(3)>>}} }

InitSnapIdle ==
    /\ nPool = <<>>
    /\ nFs = <<>>
    /\ nUnder = <<>>
    /\ npc = "idle"
    /\ nList = <<>>
    /\ nNext = None
    /\ nTaken = <<>>
    /\ nRet = Pending

\* Zfs::new has listed the pool; the caller is about to number a snapshot.
InitSnap ==
    /\ nPool \in SnapPools
    /\ nFs = nPool
    /\ nUnder \in {<<"t">>, <<"t", "/", "a">>}
    /\ npc = "next"
    /\ nList = <<>>
    /\ nNext = None
    /\ nTaken = <<>>
    /\ nRet = Pending

\* next_under(under)
SnapNextUnder ==
    /\ npc = "next"
    /\ nList' = Filtered(nFs, nUnder)
    /\ nNext' = Some(NextUnder(nFs, nUnder))
    /\ npc' = "take"
    /\ UNCHANGED <<nPool, nFs, nUnder, nTaken, nRet, exceptSnap>>

\* take_snapshot(under, next) on a local Zfs: zfs snapshot -r with
\* checked_run()?.
SnapTake ==
    /\ npc = "take"
    /\ Len(nTaken) < MaxTakes
    /\ LET name == SnapName(nNext[2]) IN
       \E status \in BOOLEAN :
          IF status /\ PoolCanSnapshot(nPool, nUnder, name)
          THEN /\ nPool' = PoolSnapshot(nPool, nUnder, name)
               /\ nTaken' = Append(nTaken, [index |-> nNext[2], name |-> name])
               /\ npc' = "rebuild"
               /\ UNCHANGED nRet
          ELSE /\ nRet' = Err(ErrSnapshotCommand)
               /\ npc' = "done"
               /\ UNCHANGED <<nPool, nTaken>>
    /\ UNCHANGED <<nFs, nUnder, nList, nNext, exceptSnap>>

\* Zfs::new again: the inventory is what the pool holds now.
SnapRebuild ==
    /\ npc = "rebuild"
    /\ nFs' = nPool
    /\ npc' = "next"
    /\ UNCHANGED <<nPool, nUnder, nList, nNext, nTaken, nRet, exceptSnap>>

\* ================================================================== sudo.rs

\* The number of sudo true processes started in one behaviour.
MaxPokes == 4

\* The number of new_cmd calls of one behaviour.
MaxCmds == 2

\* time::Duration::from_secs(60)
KeepAliveSecs == 60

ErrUnableToRunSudo == <<"unable to run sudo">>

\* A sudo true process: who started it, the deadline of the tick it follows
\* (0 for the one of start), its exit ("running" before it exits), whether
\* its exit was awaited, and what the owner and the task were when it was
\* started.
Poke(by, at, owner, task) ==
    [by |-> by, at |-> at, exit |-> "running", awaited |-> FALSE,
     owner |-> owner, task |-> task]

\* The last process exits and poke_sudo, which awaits its status, returns.
Exited(pokes, ok) ==
    [pokes EXCEPT ![Len(pokes)].exit = IF ok THEN "ok" ELSE "fail",
                  ![Len(pokes)].awaited = TRUE]

InitSudoIdle ==
    /\ kEnable = FALSE
    /\ kRoot = FALSE
    /\ kpc = "idle"
    /\ kChild = None
    /\ kTask = "none"
    /\ kTicks = 0
    /\ kPokes = <<>>
    /\ kCmds = <<>>
    /\ kLog = <<>>
    /\ kRet = Pending

\* Sudo::start is called.
InitSudo ==
    /\ kEnable \in BOOLEAN
    /\ kRoot \in BOOLEAN
    /\ kpc = "start"
    /\ kChild = None
    /\ kTask = "none"
    /\ kTicks = 0
    /\ kPokes = <<>>
    /\ kCmds = <<>>
    /\ kLog = <<>>
    /\ kRet = Pending

\* start up to its await: enabled is enable && !is_root; when enabled,
\* poke_sudo() is awaited, otherwise Sudo { child: None } is returned.
SudoStart ==
    /\ kpc = "start"
    /\ IF kEnable /\ ~kRoot
       THEN /\ kPokes' = Append(kPokes, Poke("start", 0, kpc, kTask))
            /\ kpc' = "poke"
            /\ UNCHANGED kRet
       ELSE /\ kRet' = Ok
            /\ kpc' = "live"
            /\ UNCHANGED kPokes
    /\ UNCHANGED <<kEnable, kRoot, kChild, kTask, kTicks, kCmds, kLog, exceptSudo>>

\* start after poke_sudo().await?: an error is returned; otherwise the task
\* is spawned and Sudo { child: Some(handle) } is returned.
SudoStartPoked ==
    /\ kpc = "poke"
    /\ \E ok \in BOOLEAN :
          /\ kPokes' = Exited(kPokes, ok)
          /\ IF ok
             THEN /\ kChild' = Some("task")
                  /\ kTask' = "first"
                  /\ kRet' = Ok
                  /\ kpc' = "live"
             ELSE /\ kRet' = Err(ErrUnableToRunSudo)
                  /\ kpc' = "err"
                  /\ UNCHANGED <<kChild, kTask>>
    /\ UNCHANGED <<kEnable, kRoot, kTicks, kCmds, kLog, exceptSudo>>

\* The task: the interval is made and its first tick, which completes at
\* once, is passed over.
SudoTaskFirstTick ==
    /\ kTask = "first"
    /\ kTicks' = kTicks + 1
    /\ kTask' = "tick"
    /\ UNCHANGED <<kEnable, kRoot, kpc, kChild, kPokes, kCmds, kLog, kRet, exceptSudo>>

\* The task, loop: a tick completes, KeepAliveSecs after the one before, and
\* poke_sudo() is awaited.
SudoTaskTick ==
    /\ kTask = "tick"
    /\ Len(kPokes) < MaxPokes
    /\ kPokes' = Append(kPokes, Poke("task", KeepAliveSecs * kTicks, kpc, kTask))
    /\ kTicks' = kTicks + 1
    /\ kTask' = "poke"
    /\ UNCHANGED <<kEnable, kRoot, kpc, kChild, kCmds, kLog, kRet, exceptSudo>>

\* A task that goes on after a poke that failed.
SudoTaskPokedGoesOn ==
    /\ kTask = "poke"
    /\ \E ok \in BOOLEAN :
          /\ kPokes' = Exited(kPokes, ok)
          /\ kTask' = "tick"
          /\ kLog' = IF ok THEN kLog ELSE Append(kLog, ErrUnableToRunSudo)
    /\ UNCHANGED <<kEnable, kRoot, kpc, kChild, kTicks, kCmds, kRet, exceptSudo>>

\* The task, after poke_sudo().await: Ok goes round the loop, Err is logged
\* and breaks out of it, which ends the task.
SudoTaskPoked ==
    /\ kTask = "poke"
    /\ \E ok \in BOOLEAN :
          /\ kPokes' = Exited(kPokes, ok)
          /\ IF ok
             THEN /\ kTask' = "tick"
                  /\ UNCHANGED kLog
             ELSE /\ kTask' = "ended"
                  /\ kLog' = Append(kLog, ErrUnableToRunSudo)
    /\ UNCHANGED <<kEnable, kRoot, kpc, kChild, kTicks, kCmds, kRet, exceptSudo>>

\* new_cmd: sudo <cmd> when child is Some, <cmd> otherwise.
SudoNewCmd ==
    /\ kpc = "live"
    /\ Len(kCmds) < MaxCmds
    /\ kCmds' = Append(kCmds, [wrap |-> IF kChild # None THEN "sudo" ELSE "direct",
                               task |-> kTask])
    /\ UNCHANGED <<kEnable, kRoot, kpc, kChild, kTask, kTicks, kPokes, kLog, kRet,
                   exceptSudo>>

\* A drop that takes the handle and does not abort the task.
SudoDropNoAbort ==
    /\ kpc = "live"
    /\ kChild' = None
    /\ kpc' = "dropped"
    /\ UNCHANGED <<kEnable, kRoot, kTask, kTicks, kPokes, kCmds, kLog, kRet, exceptSudo>>

\* Drop for Sudo: child.take() and, when it was Some, abort(): a task parked
\* at an await is cancelled there, a task that ended stays ended.
SudoDrop ==
    /\ kpc = "live"
    /\ kChild' = None
    /\ kTask' = IF kChild # None /\ kTask \in {"first", "tick", "poke"}
                THEN "cancelled"
                ELSE kTask
    /\ kpc' = "dropped"
    /\ UNCHANGED <<kEnable, kRoot, kTicks, kPokes, kCmds, kLog, kRet, exceptSudo>>

\* The sudo true process of a cancelled task exits: nobody waits for it.
SudoOrphanExit ==
    /\ kTask = "cancelled"
    /\ kPokes # <<>>
    /\ kPokes[Len(kPokes)].exit = "running"
    /\ \E ok \in BOOLEAN :
          kPokes' = [kPokes EXCEPT ![Len(kPokes)].exit = IF ok THEN "ok" ELSE "fail"]
    /\ UNCHANGED <<kEnable, kRoot, kpc, kChild, kTask, kTicks, kCmds, kLog, kRet,
                   exceptSudo>>

\* ================================================================ config.rs

\* The number of targets of one kind in a configuration.
MaxTargets == 2

TargetNames == {"a", "b", "c"}

\* enum Phase, in the order its derived Ord gives.
Phases == <<"Timestamp", "Snapshot", "Mount", "Rsure", "Borg">>

\* The message of the Runner of each Phase.
Banner ==
    [Timestamp |-> "Timestamps", Snapshot |-> "Snapshots", Mount |-> "Mount",
     Rsure |-> "Rsure", Borg |-> "Borg"]

\* An Action made for a Phase: its type, and the target it is made for, as
\* the list it stands in, its position there and its name.
Act(phase, type, list, idx, name) ==
    [phase |-> phase, type |-> type, list |-> list, idx |-> idx, name |-> name]

\* actions::Message::new(message)
MessageAct(phase, message) == Act(phase, "Message", "none", 0, message)

\* NameFilter::new(names).contains(name): no names, or name among them.
NameFilterContains(names, name) ==
    IF Len(names) = 0
    THEN TRUE
    ELSE \E i \in 1..Len(names) : names[i] = name

\* add_runner for each Phase: a Runner that holds the message of the Phase.
AddRunners == [p \in {Phases[i] : i \in 1..Len(Phases)} |-> <<MessageAct(p, Banner[p])>>]

\* Simple::add_actions: Stamp, SimpleRsure, BorgBackup.
SimpleAddActions(runners, idx, name) ==
    [runners EXCEPT
        !.Timestamp = Append(@, Act("Timestamp", "Stamp", "simple", idx, name)),
        !.Rsure = Append(@, Act("Rsure", "SimpleRsure", "simple", idx, name)),
        !.Borg = Append(@, Act("Borg", "BorgBackup", "simple", idx, name))]

\* Lvm::add_actions: Stamp, LvmSnapshot, MountSnap, LvmRsure, BorgBackup.
LvmAddActions(runners, idx, name) ==
    [runners EXCEPT
        !.Timestamp = Append(@, Act("Timestamp", "Stamp", "lvm", idx, name)),
        !.Snapshot = Append(@, Act("Snapshot", "LvmSnapshot", "lvm", idx, name)),
        !.Mount = Append(@, Act("Mount", "MountSnap", "lvm", idx, name)),
        !.Rsure = Append(@, Act("Rsure", "LvmRsure", "lvm", idx, name)),
        !.Borg = Append(@, Act("Borg", "BorgBackup", "lvm", idx, name))]

\* An append of the Runners from the last Phase to the first.
RECURSIVE AppendRunnersBackwards(_, _)
AppendRunnersBackwards(runners, k) ==
    IF k > Len(Phases)
    THEN <<>>
    ELSE AppendRunnersBackwards(runners, k + 1) \o runners[Phases[k]]

\* for (_, run) in runners.into_iter() { runner.append(run) }: the BTreeMap
\* yields its Runners in the order of their Phase, from the k-th on.
RECURSIVE AppendRunners(_, _)
AppendRunners(runners, k) ==
    IF k > Len(Phases)
    THEN <<>>
    ELSE runners[Phases[k]] \o AppendRunners(runners, k + 1)

TargetLists == UNION {[1..n -> TargetNames] : n \in 0..MaxTargets}

NameLists ==
    {<<>>, <<"a">>, <<"b">>, <<"c">>, <<"a", "b">>, <<"b", "c">>, <<"c", "a">>,
     <<"d">>}

InitCfgIdle ==
    /\ gSimple = <<>>
    /\ gLvm = <<>>
    /\ gNames = <<>>
    /\ gpc = "idle"
    /\ gIdx = 0
    /\ gRunners = <<>>
    /\ gRunner = <<>>
    /\ gRet = Pending

\* build_runner is called on a loaded ConfigFile.
InitCfg ==
    /\ gSimple \in TargetLists
    /\ gLvm \in TargetLists
    /\ gNames \in NameLists
    /\ gpc = "begin"
    /\ gIdx = 0
    /\ gRunners = <<>>
    /\ gRunner = <<>>
    /\ gRet = Pending

\* NameFilter::new, BTreeMap::new and the five add_runner calls.
CfgBegin ==
    /\ gpc = "begin"
    /\ gRunners' = AddRunners
    /\ gpc' = "simple"
    /\ gIdx' = 1
    /\ UNCHANGED <<gSimple, gLvm, gNames, gRunner, gRet, exceptCfg>>

\* for simp in &self.simple: a name the filter does not contain breaks out of
\* the loop; otherwise the actions of the target are added.
CfgSimple ==
    /\ gpc = "simple"
    /\ gIdx <= Len(gSimple)
    /\ IF ~NameFilterContains(gNames, gSimple[gIdx])
       THEN /\ gpc' = "lvm"
            /\ gIdx' = 1
            /\ UNCHANGED gRunners
       ELSE /\ gRunners' = SimpleAddActions(gRunners, gIdx, gSimple[gIdx])
            /\ gIdx' = gIdx + 1
            /\ UNCHANGED gpc
    /\ UNCHANGED <<gSimple, gLvm, gNames, gRunner, gRet, exceptCfg>>

\* The loop over simple is over.
CfgSimpleEnd ==
    /\ gpc = "simple"
    /\ gIdx > Len(gSimple)
    /\ gpc' = "lvm"
    /\ gIdx' = 1
    /\ UNCHANGED <<gSimple, gLvm, gNames, gRunners, gRunner, gRet, exceptCfg>>

\* for lvm in &self.lvm: the same with the Lvm targets.
CfgLvm ==
    /\ gpc = "lvm"
    /\ gIdx <= Len(gLvm)
    /\ IF ~NameFilterContains(gNames, gLvm[gIdx])
       THEN /\ gpc' = "finish"
            /\ UNCHANGED <<gIdx, gRunners>>
       ELSE /\ gRunners' = LvmAddActions(gRunners, gIdx, gLvm[gIdx])
            /\ gIdx' = gIdx + 1
            /\ UNCHANGED gpc
    /\ UNCHANGED <<gSimple, gLvm, gNames, gRunner, gRet, exceptCfg>>

\* The loop over lvm is over.
CfgLvmEnd ==
    /\ gpc = "lvm"
    /\ gIdx > Len(gLvm)
    /\ gpc' = "finish"
    /\ UNCHANGED <<gSimple, gLvm, gNames, gIdx, gRunners, gRunner, gRet, exceptCfg>>

\* Runner::new, the append of each Runner of the map, the push of the last
\* Message and Ok(runner).
CfgFinish ==
    /\ gpc = "finish"
    /\ gRunner' = Append(AppendRunners(gRunners, 1),
                         MessageAct("none", "Finished, cleaning up"))
    /\ gRet' = Ok
    /\ gpc' = "done"
    /\ UNCHANGED <<gSimple, gLvm, gNames, gIdx, gRunners, exceptCfg>>

\* --------------------------------------- Zfs::do_clone, pipes and processes

\* The length of the stream zfs send writes, in blocks.
MaxStream == 3

\* The capacity of the buffer of a pipe, in blocks.
PipeCap == 1

\* The processes that hold the read end of a pipe open.  pv has that of p1 as
\* its stdin, zfs receive that of p2.
Readers(pipe) ==
    (IF pipe = "p1" /\ qProc.pv = "running" THEN {"pv"} ELSE {})
    \cup (IF pipe = "p2" /\ qProc.receive = "running" THEN {"receive"} ELSE {})
    \cup (IF (pipe = "p1" /\ "r1" \in qFds) \/ (pipe = "p2" /\ "r2" \in qFds)
          THEN {"self"} ELSE {})

InitPipeIdle ==
    /\ qpc = "idle"
    /\ qProc = [send |-> "none", pv |-> "none", receive |-> "none"]
    /\ qLeft = 0
    /\ qPipe = [p1 |-> 0, p2 |-> 0]
    /\ qFds = {}
    /\ qGot = 0
    /\ qRet = Pending

\* do_clone is entered.
InitPipe ==
    /\ qpc = "spawn_send"
    /\ qProc = [send |-> "none", pv |-> "none", receive |-> "none"]
    /\ qLeft \in 0..MaxStream
    /\ qPipe = [p1 |-> 0, p2 |-> 0]
    /\ qFds = {}
    /\ qGot = 0
    /\ qRet = Pending

\* cmd.stdout(Stdio::piped()); cmd.spawn()?: sender.stdout is the read end of
\* p1.  An error returns.
PipeSpawnSend ==
    /\ qpc = "spawn_send"
    /\ \E ok \in BOOLEAN :
          IF ok
          THEN /\ qProc' = [qProc EXCEPT !.send = "running"]
               /\ qFds' = {"r1"}
               /\ qpc' = "spawn_pv"
               /\ UNCHANGED qRet
          ELSE /\ qRet' = Err(ErrSpawn("send"))
               /\ qpc' = "done"
               /\ UNCHANGED <<qProc, qFds>>
    /\ UNCHANGED <<qLeft, qPipe, qGot, exceptPipe>>

\* pv is spawned with stdin from_raw_fd(send_out) and stdout piped.  The
\* Command is a temporary: dropped at the end of the statement, it closes the
\* descriptor its Stdio owns, the read end of p1.  pv.stdout is the read end
\* of p2.  An error returns, and the Child values are dropped.
PipeSpawnPv ==
    /\ qpc = "spawn_pv"
    /\ \E ok \in BOOLEAN :
          IF ok
          THEN /\ qProc' = [qProc EXCEPT !.pv = "running"]
               /\ qFds' = {"r2"}
               /\ qpc' = "spawn_recv"
               /\ UNCHANGED qRet
          ELSE /\ qRet' = Err(ErrSpawn("pv"))
               /\ qFds' = {}
               /\ qpc' = "done"
               /\ UNCHANGED qProc
    /\ UNCHANGED <<qLeft, qPipe, qGot, exceptPipe>>

\* zfs receive is spawned with stdin from_raw_fd(pv_out).  Its Command is the
\* local cmd and pv.stdout stays in pv: the read end of p2 stays open until
\* do_clone returns.
PipeSpawnRecv ==
    /\ qpc = "spawn_recv"
    /\ \E ok \in BOOLEAN :
          IF ok
          THEN /\ qProc' = [qProc EXCEPT !.receive = "running"]
               /\ qpc' = "wait_send"
               /\ UNCHANGED <<qFds, qRet>>
          ELSE /\ qRet' = Err(ErrSpawn("receive"))
               /\ qFds' = {}
               /\ qpc' = "done"
               /\ UNCHANGED qProc
    /\ UNCHANGED <<qLeft, qPipe, qGot, exceptPipe>>

\* sender.wait()?, pv.wait()?, receiver.wait()?: wait returns once the
\* process has exited; a failure returns the error of the stage.
PipeWait(stage, pos, then, error) ==
    /\ qpc = pos
    /\ qProc[stage] \in {"ok", "fail"}
    /\ IF qProc[stage] = "ok" /\ then # "done"
       THEN /\ qpc' = then
            /\ UNCHANGED <<qFds, qRet>>
       ELSE /\ qRet' = IF qProc[stage] = "ok" THEN Ok ELSE Err(error)
            /\ qFds' = {}
            /\ qpc' = "done"
    /\ UNCHANGED <<qProc, qLeft, qPipe, qGot, exceptPipe>>

PipeWaitSend == PipeWait("send", "wait_send", "wait_pv", ErrSend)
PipeWaitPv == PipeWait("pv", "wait_pv", "wait_recv", ErrPv)
PipeWaitReceive == PipeWait("receive", "wait_recv", "done", ErrReceive)

\* zfs send writes a block to its stdout when the buffer of p1 has room.
PipeSendWrite ==
    /\ qProc.send = "running"
    /\ qLeft > 0
    /\ Readers("p1") # {}
    /\ qPipe.p1 < PipeCap
    /\ qPipe' = [qPipe EXCEPT !.p1 = @ + 1]
    /\ qLeft' = qLeft - 1
    /\ UNCHANGED <<qpc, qProc, qFds, qGot, qRet, exceptPipe>>

\* zfs send exits: with success once it wrote everything, and of SIGPIPE
\* when it writes and p1 has no reader.
PipeSendExit ==
    /\ qProc.send = "running"
    /\ IF qLeft = 0
       THEN qProc' = [qProc EXCEPT !.send = "ok"]
       ELSE /\ Readers("p1") = {}
            /\ qProc' = [qProc EXCEPT !.send = "fail"]
    /\ UNCHANGED <<qpc, qLeft, qPipe, qFds, qGot, qRet, exceptPipe>>

\* zfs send fails, at any time.
PipeSendFail ==
    /\ qProc.send = "running"
    /\ qProc' = [qProc EXCEPT !.send = "fail"]
    /\ UNCHANGED <<qpc, qLeft, qPipe, qFds, qGot, qRet, exceptPipe>>

\* pv copies a block from its stdin to its stdout when the buffer of p2 has
\* room.
PipePvCopy ==
    /\ qProc.pv = "running"
    /\ qPipe.p1 > 0
    /\ Readers("p2") # {}
    /\ qPipe.p2 < PipeCap
    /\ qPipe' = [p1 |-> qPipe.p1 - 1, p2 |-> qPipe.p2 + 1]
    /\ UNCHANGED <<qpc, qProc, qLeft, qFds, qGot, qRet, exceptPipe>>

\* pv exits: with success at the end of its input (p1 empty and zfs send
\* gone), and of SIGPIPE when it writes and p2 has no reader.
PipePvExit ==
    /\ qProc.pv = "running"
    /\ IF qPipe.p1 = 0
       THEN /\ qProc.send # "running"
            /\ qProc' = [qProc EXCEPT !.pv = "ok"]
       ELSE /\ Readers("p2") = {}
            /\ qProc' = [qProc EXCEPT !.pv = "fail"]
    /\ UNCHANGED <<qpc, qLeft, qPipe, qFds, qGot, qRet, exceptPipe>>

\* pv fails, at any time.
PipePvFail ==
    /\ qProc.pv = "running"
    /\ qProc' = [qProc EXCEPT !.pv = "fail"]
    /\ UNCHANGED <<qpc, qLeft, qPipe, qFds, qGot, qRet, exceptPipe>>

\* zfs receive reads a block from its stdin.
PipeReceiveRead ==
    /\ qProc.receive = "running"
    /\ qPipe.p2 > 0
    /\ qPipe' = [qPipe EXCEPT !.p2 = @ - 1]
    /\ qGot' = qGot + 1
    /\ UNCHANGED <<qpc, qProc, qLeft, qFds, qRet, exceptPipe>>

\* zfs receive exits with success at the end of its input: p2 empty and pv
\* gone.
PipeReceiveExit ==
    /\ qProc.receive = "running"
    /\ qPipe.p2 = 0
    /\ qProc.pv # "running"
    /\ qProc' = [qProc EXCEPT !.receive = "ok"]
    /\ UNCHANGED <<qpc, qLeft, qPipe, qFds, qGot, qRet, exceptPipe>>

\* zfs receive fails, at any time, also before it read the stream.
PipeReceiveFail ==
    /\ qProc.receive = "running"
    /\ qProc' = [qProc EXCEPT !.receive = "fail"]
    /\ UNCHANGED <<qpc, qLeft, qPipe, qFds, qGot, qRet, exceptPipe>>

\* ----------------------------------------- Zfs::clone run again, the pool

\* The snapshots after from, up to to, of a snapshot list.
RECURSIVE SnapsBetween(_, _, _)
SnapsBetween(snaps, from, to) ==
    IF snaps = <<>>
    THEN <<>>
    ELSE IF Contains(snaps, from)
    THEN SnapsBetween(Tail(snaps), from, to)
    ELSE IF Contains(snaps, to)
    THEN <<Head(snaps)>> \o SnapsBetween(Tail(snaps), from, to)
    ELSE <<>>

\* What a command that succeeded does to the destination pool.  zfs create
\* makes a dataset without snapshots; zfs send | zfs receive gives the
\* destination the snapshot sent, with those in between for send -I, a full
\* stream making the dataset when there is none.
ApplyCmd(pool, source, cmd) ==
    IF cmd.op = "create"
    THEN Append(pool, Filesystem(cmd.fs, <<>>, "none"))
    ELSE IF cmd.op = "send"
    THEN LET got == IF cmd.from = None
                    THEN <<cmd.to>>
                    ELSE SnapsBetween(source.snaps, cmd.from[2], cmd.to) IN
         IF \E i \in 1..Len(pool) : pool[i].name = cmd.dest[2]
         THEN [i \in 1..Len(pool) |->
                  IF pool[i].name = cmd.dest[2]
                  THEN [pool[i] EXCEPT !.snaps = @ \o got]
                  ELSE pool[i]]
         ELSE IF cmd.from = None
         THEN Append(pool, Filesystem(cmd.dest[2], got, "none"))
         ELSE pool
    ELSE pool

\* The commands of one pair that succeeded: all of them, but the last when
\* the pair ended on a command that failed.
Succeeded(e) ==
    IF e.failed
    THEN SubSeq(e.cmds, 1, Len(e.cmds) - 1)
    ELSE e.cmds

RECURSIVE ApplyCmds(_, _, _)
ApplyCmds(pool, source, cmds) ==
    IF cmds = <<>>
    THEN pool
    ELSE ApplyCmds(ApplyCmd(pool, source, Head(cmds)), source, Tail(cmds))

\* The destination pool after the pairs done, from the k-th on.
RECURSIVE PoolAfter(_, _, _)
PoolAfter(pool, done, k) ==
    IF k > Len(done)
    THEN pool
    ELSE PoolAfter(ApplyCmds(pool, done[k].src, Succeeded(done[k])), done, k + 1)

InitConvIdle ==
    /\ cRun = 1
    /\ cFirst = <<>>

\* clone is entered with perform true, on a source pool without s/c.
InitConv ==
    /\ InitClone
    /\ perform = TRUE
    /\ \A i \in 1..Len(srcFs) : srcFs[i].name # <<"s", "/", "c">>

\* clone returned Ok; Zfs::new lists the destination pool again and clone is
\* called a second time with the same arguments.
CloneAgain ==
    /\ cpc = "done"
    /\ cRet = Ok
    /\ cRun = 1
    /\ dstFs' = PoolAfter(dstFs, cDone, 1)
    /\ cFirst' = cDone
    /\ cRun' = 2
    /\ cDone' = <<>>
    /\ cIdx' = 1
    /\ cpc' = "loop"
    /\ cRet' = "none"
    /\ UNCHANGED <<srcFs, perform, excludes>>
    /\ UNCHANGED <<runnerVars, xferVars, volVars, pruneVars, buildVars, snapVars,
                   sudoVars, cfgVars, pipeVars>>

\* ---------------------------------------------------------- specifications

\* A Runner is built and run.
Init ==
    InitRunner /\ InitCloneIdle /\ InitXferIdle /\ InitVolIdle /\ InitPruneIdle /\ InitBuildIdle /\ InitSnapIdle /\ InitSudoIdle /\ InitCfgIdle /\ InitPipeIdle /\ InitConvIdle

Next ==
    \/ Push
    \/ PushOther
    \/ AppendOther
    \/ Run
    \/ LoopPretend
    \/ LoopPerformOk
    \/ LoopPerformErr
    \/ LoopEnd
    \/ CleanupStep
    \/ CleanupEnd

Spec == Init /\ [][Next]_vars

\* clone is run on a pair of inventories.
InitCloneSpec ==
    InitRunner /\ InitClone /\ InitXferIdle /\ InitVolIdle /\ InitPruneIdle /\ InitBuildIdle /\ InitSnapIdle /\ InitSudoIdle /\ InitCfgIdle /\ InitPipeIdle /\ InitConvIdle

NextClone ==
    \/ CloneSkip
    \/ ClonePairStep
    \/ CloneEnd

SpecClone == InitCloneSpec /\ [][NextClone]_vars

\* One planned transfer of clone_one is estimated and made.
InitXferSpec ==
    InitRunner /\ InitCloneIdle /\ InitXfer /\ InitVolIdle /\ InitPruneIdle /\ InitBuildIdle /\ InitSnapIdle /\ InitSudoIdle /\ InitCfgIdle /\ InitPipeIdle /\ InitConvIdle

NextXfer ==
    \/ Estimate
    \/ SpawnSend
    \/ SpawnPv
    \/ SpawnReceive
    \/ StageExit
    \/ WaitSend
    \/ WaitPv
    \/ WaitReceive

SpecXfer == InitXferSpec /\ [][NextXfer]_vars

\* make_volume is run on a property listing.
InitVolSpec ==
    InitRunner /\ InitCloneIdle /\ InitXferIdle /\ InitVol /\ InitPruneIdle /\ InitBuildIdle /\ InitSnapIdle /\ InitSudoIdle /\ InitCfgIdle /\ InitPipeIdle /\ InitConvIdle

NextVol ==
    \/ VolumeGet
    \/ VolumeCreate

SpecVol == InitVolSpec /\ [][NextVol]_vars

\* prune_hanoi is run on an inventory.
InitPruneSpec ==
    InitRunner /\ InitCloneIdle /\ InitXferIdle /\ InitVolIdle /\ InitPrune /\ InitBuildIdle /\ InitSnapIdle /\ InitSudoIdle /\ InitCfgIdle /\ InitPipeIdle /\ InitConvIdle

NextPrune ==
    \/ PruneSelect
    \/ PruneWould
    \/ PruneDestroy
    \/ PruneEnd

SpecPrune == InitPruneSpec /\ [][NextPrune]_vars

\* prune_hanoi is run with a given number of snapshots kept.
InitHanoiSpec ==
    InitRunner /\ InitCloneIdle /\ InitXferIdle /\ InitVolIdle /\ InitHanoi /\ InitBuildIdle /\ InitSnapIdle /\ InitSudoIdle /\ InitCfgIdle /\ InitPipeIdle /\ InitConvIdle

SpecHanoi == InitHanoiSpec /\ [][NextPrune]_vars

\* Zfs::new parses a listing.
InitBuildSpec ==
    InitRunner /\ InitCloneIdle /\ InitXferIdle /\ InitVolIdle /\ InitPruneIdle /\ InitBuild /\ InitSnapIdle /\ InitSudoIdle /\ InitCfgIdle /\ InitPipeIdle /\ InitConvIdle

NextBuild ==
    \/ BuildList
    \/ BuildLine
    \/ BuildEnd

SpecBuild == InitBuildSpec /\ [][NextBuild]_vars



\* Snapshots are numbered with next_under and taken, the inventory being
\* built again after each.
InitSnapSpec ==
    InitRunner /\ InitCloneIdle /\ InitXferIdle /\ InitVolIdle /\ InitPruneIdle /\ InitBuildIdle /\ InitSnap /\ InitSudoIdle /\ InitCfgIdle /\ InitPipeIdle /\ InitConvIdle

NextSnap ==
    \/ SnapNextUnder
    \/ SnapTake
    \/ SnapRebuild

SpecSnap == InitSnapSpec /\ [][NextSnap]_vars



\* A Sudo is started, used and dropped while its task runs.
InitSudoSpec ==
    InitRunner /\ InitCloneIdle /\ InitXferIdle /\ InitVolIdle /\ InitPruneIdle /\ InitBuildIdle /\ InitSnapIdle /\ InitSudo /\ InitCfgIdle /\ InitPipeIdle /\ InitConvIdle

NextSudo ==
    \/ SudoStart
    \/ SudoStartPoked
    \/ SudoTaskFirstTick
    \/ SudoTaskTick
    \/ SudoTaskPoked
    \/ SudoNewCmd
    \/ SudoDrop
    \/ SudoOrphanExit

SpecSudo == InitSudoSpec /\ [][NextSudo]_vars

\* The same, the runtime scheduling the task and sudo true exiting.
SpecSudoFair ==
    /\ InitSudoSpec
    /\ [][NextSudo]_vars
    /\ WF_vars(SudoTaskFirstTick)
    /\ WF_vars(SudoTaskTick)
    /\ WF_vars(SudoTaskPoked)



\* build_runner is run on a configuration and a list of names.
InitCfgSpec ==
    InitRunner /\ InitCloneIdle /\ InitXferIdle /\ InitVolIdle /\ InitPruneIdle /\ InitBuildIdle /\ InitSnapIdle /\ InitSudoIdle /\ InitCfg /\ InitPipeIdle /\ InitConvIdle

NextCfg ==
    \/ CfgBegin
    \/ CfgSimple
    \/ CfgSimpleEnd
    \/ CfgLvm
    \/ CfgLvmEnd
    \/ CfgFinish

SpecCfg == InitCfgSpec /\ [][NextCfg]_vars



\* do_clone runs its pipeline of three processes.
InitPipeSpec ==
    InitRunner /\ InitCloneIdle /\ InitXferIdle /\ InitVolIdle /\ InitPruneIdle /\ InitBuildIdle /\ InitSnapIdle /\ InitSudoIdle /\ InitCfgIdle /\ InitPipe /\ InitConvIdle

NextPipe ==
    \/ PipeSpawnSend
    \/ PipeSpawnPv
    \/ PipeSpawnRecv
    \/ PipeWaitSend
    \/ PipeWaitPv
    \/ PipeWaitReceive
    \/ PipeSendWrite
    \/ PipeSendExit
    \/ PipeSendFail
    \/ PipePvCopy
    \/ PipePvExit
    \/ PipePvFail
    \/ PipeReceiveRead
    \/ PipeReceiveExit
    \/ PipeReceiveFail

SpecPipe == InitPipeSpec /\ [][NextPipe]_vars

\* The same, every process being scheduled: a step that stays possible is
\* taken.  No process has to fail.
SpecPipeFair ==
    /\ InitPipeSpec
    /\ [][NextPipe]_vars
    /\ WF_vars(PipeSpawnSend) /\ WF_vars(PipeSpawnPv) /\ WF_vars(PipeSpawnRecv)
    /\ WF_vars(PipeWaitSend) /\ WF_vars(PipeWaitPv) /\ WF_vars(PipeWaitReceive)
    /\ WF_vars(PipeSendWrite) /\ WF_vars(PipeSendExit)
    /\ WF_vars(PipePvCopy) /\ WF_vars(PipePvExit)
    /\ WF_vars(PipeReceiveRead) /\ WF_vars(PipeReceiveExit)



\* clone is run with perform true and, when it returns Ok, run again on the
\* destination pool as it then is.
InitConvSpec ==
    InitRunner /\ InitXferIdle /\ InitVolIdle /\ InitPruneIdle /\ InitBuildIdle /\ InitSnapIdle /\ InitSudoIdle /\ InitCfgIdle /\ InitPipeIdle /\ InitConvIdle /\ InitConv

NextConv ==
    \/ CloneSkip
    \/ ClonePairStep
    \/ CloneEnd
    \/ CloneAgain

SpecConv == InitConvSpec /\ [][NextConv]_vars

\* ------------------------------------------------------- claims: Runner

Range(s) == {s[i] : i \in 1..Len(s)}

RunReturned == pc = "done" /\ ~pretend

\* C1: after run(false) returns, with Ok or with Err, cleanup has been invoked
\* exactly once on every Action whose perform succeeded, in reverse order of
\* performance, also when no Action fails.
C1_CleanupAfterEveryRun ==
    RunReturned => cleaned = Reverse(succeeded)

\* C2: when Action k is the first whose perform fails, run(false) invokes
\* cleanup on Actions k-1, ..., 1 in exactly that order and never on Action k
\* or on Actions k+1..N.
C2_CleanupBelowFailure ==
    (RunReturned /\ FirstFail(actions) # 0) =>
        cleaned = Reverse(Ids(SubSeq(actions, 1, FirstFail(actions) - 1)))

C2_Witness ==
    /\ RunReturned
    /\ Len(actions) = 4
    /\ FirstFail(actions) = 3
    /\ Len(cleaned) = 2

\* C3: when a perform fails, run(false) returns exactly that perform error,
\* whatever the outcomes of the cleanups that run afterwards.
C3_ReturnsPerformError ==
    (RunReturned /\ FirstFail(actions) # 0) =>
        ret = Err(PerformErr(actions[FirstFail(actions)]))

C3_Witness ==
    /\ RunReturned
    /\ ret # Ok
    /\ \E i \in 1..Len(log) : log[i][1] = "cleanup"
    /\ \E i \in 1..Len(actions) : actions[i].id \in Range(cleaned) /\ ~actions[i].cf

\* C4: a cleanup that returns an error does not stop the cleanup pass: cleanup
\* is still invoked on every older Action on the cleanup stack, for any subset
\* of failing cleanups.
C4_CleanupPassContinues ==
    (RunReturned /\ ret # Ok) =>
        /\ cleanups = <<>>
        /\ \A i \in 1..Len(succeeded) : succeeded[i] \in Range(cleaned)
        /\ \A i \in 1..Len(actions) :
              (actions[i].id \in Range(succeeded) /\ actions[i].cf) =>
                  /\ CleanupErr(actions[i]) \in Range(log)
                  /\ \A j \in 1..(i - 1) : actions[j].id \in Range(cleaned)

C4_Witness ==
    /\ RunReturned
    /\ ret # Ok
    /\ \E i, j \in 1..Len(actions) :
          /\ i < j
          /\ actions[j].cf
          /\ CleanupErr(actions[j]) \in Range(log)
          /\ actions[i].id \in Range(cleaned)

\* C5: run(false) invokes perform on the Actions strictly in the order they
\* were pushed, each at most once, and after the first perform failure on no
\* later Action.
C5_PerformInPushOrder ==
    /\ Len(performed) <= Len(actions)
    /\ performed = SubSeq(Ids(actions), 1, Len(performed))
    /\ \A i, j \in 1..Len(performed) : performed[i] = performed[j] => i = j
    /\ (RunReturned /\ FirstFail(actions) # 0) =>
           Len(performed) = FirstFail(actions)
    /\ (RunReturned /\ FirstFail(actions) = 0) =>
           Len(performed) = Len(actions)

C5_Witness ==
    /\ RunReturned
    /\ Len(actions) = 4
    /\ FirstFail(actions) = 2
    /\ Ids(actions) # <<1, 2, 3, 4>>
    /\ Len(performed) = 2

\* C6: run(true) invokes neither perform nor cleanup on any Action, prints
\* exactly one description line per Action in push order, and returns Ok for
\* every sequence of Actions.
C6_PretendOnlyDescribes ==
    (pretend /\ pc # "build") =>
        /\ performed = <<>>
        /\ cleaned = <<>>
        /\ log = <<>>
        /\ pc # "cleanup"
        /\ pc = "done" =>
              /\ ret = Ok
              /\ out = [i \in 1..Len(actions) |-> Describe(actions[i])]

C6_Witness ==
    /\ pc = "done"
    /\ pretend
    /\ Len(actions) >= 3
    /\ FirstFail(actions) = 2

\* C7: running a Runner that holds no Actions returns Ok, in pretend and in
\* real mode, with no perform, no cleanup and no output.
C7_EmptyRunner ==
    (pc = "done" /\ actions = <<>>) =>
        /\ ret = Ok
        /\ performed = <<>>
        /\ cleaned = <<>>
        /\ out = <<>>
        /\ log = <<>>

C7_Witness ==
    /\ pc = "done"
    /\ actions = <<>>
    /\ ~pretend
    /\ other # <<>>

\* C8: a.append(b) leaves a holding its previous Actions followed by b's, in
\* b's order, and push adds one Action at the end; through any interleaving
\* of push and append no Action is dropped, duplicated or reordered.
C8_AppendConcatenates ==
    /\ [](pc = "build" =>
            /\ Len(actions) + Len(other) = nextId - 1
            /\ Range(Ids(actions)) \cup Range(Ids(other)) = 1..(nextId - 1))
    /\ [][(pc = "build" /\ pc' = "build") =>
            IF nextId' = nextId
            THEN actions' = actions \o other /\ other' = <<>>
            ELSE \/ other' = other /\ Len(actions') = Len(actions) + 1
                                   /\ Front(actions') = actions
                 \/ actions' = actions /\ Len(other') = Len(other) + 1
                                       /\ Front(other') = other]_vars

C8_Witness ==
    /\ pc = "build"
    /\ other = <<>>
    /\ Ids(actions) = <<2, 1, 4, 3>>

\* -------------------------------------------------------- claims: clone

\* The Filesystems of the destination inventory that are the counterpart of
\* the source Filesystem src: named dest_subtree + suffix.
Counterparts(src) ==
    {d \in Range(dstFs) : d.name = DestArg \o SliceFrom(src.name, Len(SourceArg))}

IsTransferOrEstimate(cmd) == cmd.op \in {"estimate", "send"}

\* C9: when the destination counterpart of a source Filesystem exists with a
\* non-empty snapshot list whose latest snapshot is not in the source's list,
\* the clone fails with the diverged-history error, and no size estimate and
\* no transfer is issued for that pair.
C9_DivergedHistoryFails ==
    \A i \in 1..Len(cDone) :
        LET e == cDone[i] IN
        (/\ e.kind # "skip"
         /\ \E d \in Counterparts(e.src) :
               d.snaps # <<>> /\ ~Contains(e.src.snaps, Last(d.snaps))) =>
            /\ e.res = Err(ErrDiverged)
            /\ \A j \in 1..Len(e.cmds) : ~IsTransferOrEstimate(e.cmds[j])
            /\ i = Len(cDone)
            /\ cpc = "done"
            /\ cRet = Err(ErrDiverged)

C9_Witness ==
    /\ cpc = "done"
    /\ perform
    /\ Len(cDone) = 2
    /\ cDone[1].cmds # <<>>
    /\ cDone[2].src.snaps # <<>>
    /\ \E d \in Counterparts(cDone[2].src) :
          d.snaps # <<>> /\ ~Contains(cDone[2].src.snaps, Last(d.snaps))
    /\ cRet = Err(ErrDiverged)

\* C10: when the existing destination's latest snapshot equals the source's
\* latest snapshot, cloning the pair succeeds and issues no size estimate, no
\* volume creation and no transfer, with perform true or false.
C10_UpToDateIsNoOp ==
    \A i \in 1..Len(cDone) :
        LET e == cDone[i] IN
        (/\ e.kind # "skip"
         /\ e.src.snaps # <<>>
         /\ \E d \in Counterparts(e.src) :
               d.snaps # <<>> /\ Last(d.snaps) = Last(e.src.snaps)) =>
            /\ e.res = Ok
            /\ e.cmds = <<>>

C10_Witness ==
    /\ cpc = "done"
    /\ cRet = Ok
    /\ perform
    /\ \E i \in 1..Len(cDone) :
          /\ cDone[i].kind # "skip"
          /\ Len(cDone[i].src.snaps) = 2
          /\ \E d \in Counterparts(cDone[i].src) :
                Len(d.snaps) = 1 /\ Last(d.snaps) = Last(cDone[i].src.snaps)
          /\ cDone[i].cmds = <<>>

\* The transfers, and the volume creations, among the commands cmds.
Sends(cmds) == SelectSeq(cmds, LAMBDA c : c.op = "send")
Creates(cmds) == SelectSeq(cmds, LAMBDA c : c.op = "create")

IsPrefix(s, t) == Len(s) <= Len(t) /\ s = SubSeq(t, 1, Len(s))

\* The result of a pair that stopped at a failing command.
IsCommandFailure(e) ==
    e.cmds # <<>> /\ e.res = Err(ErrCommand(Last(e.cmds)))

\* C11: when the existing destination's latest snapshot L is in the source and
\* differs from the source's latest snapshot T, cloning the pair with perform
\* issues exactly one transfer, the incremental one from L to T, after its
\* size estimate, and no full transfer and no volume creation; a pair that
\* stops at a failing command has issued a prefix of that.
C11_IncrementalFromDestLatest ==
    perform =>
    \A i \in 1..Len(cDone) :
        LET e == cDone[i] IN
        (/\ e.kind # "skip"
         /\ \E d \in Counterparts(e.src) :
               /\ d.snaps # <<>>
               /\ Contains(e.src.snaps, Last(d.snaps))
               /\ Last(d.snaps) # Last(e.src.snaps)) =>
            LET d == CHOOSE d \in Counterparts(e.src) : TRUE
                want == <<DoCloneCmd(e.src.name, d.name, Some(Last(d.snaps)),
                                     Last(e.src.snaps))>> IN
            /\ Creates(e.cmds) = <<>>
            /\ IsPrefix(Sends(e.cmds), want)
            /\ e.res = Ok \/ IsCommandFailure(e)
            /\ e.res = Ok => Sends(e.cmds) = want
            /\ Len(e.cmds) = 2 => Sends(e.cmds) = want

C11_Witness ==
    /\ perform
    /\ cpc = "done"
    /\ cRet = Ok
    /\ \E i \in 1..Len(cDone) :
          /\ cDone[i].src.snaps = <<1, 2>>
          /\ cDone[i].kind = "existing"
          /\ cDone[i].dest.snaps = <<1>>
          /\ Len(Sends(cDone[i].cmds)) = 1

\* C12 as stated: when the destination Filesystem exists with an empty
\* snapshot list, cloning the pair fails with the empty-destination error and
\* issues no transfer.
C12_EmptyDestinationFails ==
    \A i \in 1..Len(cDone) :
        LET e == cDone[i] IN
        (e.kind # "skip" /\ \E d \in Counterparts(e.src) : d.snaps = <<>>) =>
            /\ e.res = Err(ErrEmptyDestination)
            /\ Sends(e.cmds) = <<>>

\* C12 as amended: an existing destination with an empty snapshot list raises
\* no empty-destination error.  It is seeded like a new one, without volume
\* creation: with perform, a full transfer of the source's earliest snapshot
\* and, when the source holds more than one, an incremental transfer from the
\* earliest to the latest; the pair fails only when the source holds no
\* snapshot or a command fails.
C12_EmptyDestinationIsSeeded ==
    \A i \in 1..Len(cDone) :
        LET e == cDone[i] IN
        (e.kind # "skip" /\ \E d \in Counterparts(e.src) : d.snaps = <<>>) =>
            LET d == CHOOSE d \in Counterparts(e.src) : TRUE
                first == Head(e.src.snaps)
                last == Last(e.src.snaps)
                want == <<DoCloneCmd(e.src.name, d.name, None, first)>>
                        \o (IF first # last
                            THEN <<DoCloneCmd(e.src.name, d.name, Some(first), last)>>
                            ELSE <<>>) IN
            /\ e.res # Err(ErrEmptyDestination)
            /\ Creates(e.cmds) = <<>>
            /\ e.src.snaps = <<>> <=> e.res = Err(ErrNoSnapshots)
            /\ e.src.snaps = <<>> => e.cmds = <<>>
            /\ e.src.snaps # <<>> => e.res = Ok \/ IsCommandFailure(e)
            /\ (perform /\ e.src.snaps # <<>>) =>
                  /\ IsPrefix(Sends(e.cmds), want)
                  /\ e.res = Ok => Sends(e.cmds) = want

C12_Witness ==
    /\ perform
    /\ cpc = "done"
    /\ cRet = Ok
    /\ \E i \in 1..Len(cDone) :
          /\ cDone[i].kind # "skip"
          /\ \E d \in Counterparts(cDone[i].src) : d.snaps = <<>>
          /\ Len(cDone[i].src.snaps) = 2
          /\ Len(Sends(cDone[i].cmds)) = 2

\* C13: when no destination Filesystem has the source's suffix, clone with
\* perform issues, in this order, the creation of the volume named
\* dest_subtree + suffix, one full transfer of the source's earliest snapshot
\* and, if and only if the source holds more than one snapshot, one
\* incremental transfer from the earliest to the latest; a pair that stops at
\* a failing command has issued a prefix of that.
C13_FreshCloneOrder ==
    perform =>
    \A i \in 1..Len(cDone) :
        LET e == cDone[i] IN
        (e.kind # "skip" /\ Counterparts(e.src) = {} /\ e.src.snaps # <<>>) =>
            LET name == DestArg \o SliceFrom(e.src.name, Len(SourceArg))
                first == Head(e.src.snaps)
                last == Last(e.src.snaps)
                want == <<CreateCmd(name), DoCloneCmd(e.src.name, name, None, first)>>
                        \o (IF Len(e.src.snaps) > 1
                            THEN <<DoCloneCmd(e.src.name, name, Some(first), last)>>
                            ELSE <<>>)
                did == SelectSeq(e.cmds, LAMBDA c : c.op \in {"create", "send"}) IN
            /\ IsPrefix(did, want)
            /\ e.res = Ok \/ IsCommandFailure(e)
            /\ e.res = Ok => did = want

C13_Witness ==
    /\ perform
    /\ cpc = "done"
    /\ cRet = Ok
    /\ \E i \in 1..Len(cDone) :
          /\ cDone[i].kind # "skip"
          /\ Counterparts(cDone[i].src) = {}
          /\ Len(cDone[i].src.snaps) = 2
          /\ Len(Creates(cDone[i].cmds)) = 1
          /\ Len(Sends(cDone[i].cmds)) = 2

\* C14: clone without perform issues no transfer and no volume creation for
\* any source Filesystem, whether its destination exists or not.
C14_NoExecutionWithoutPerform ==
    ~perform =>
    \A i \in 1..Len(cDone) :
        Sends(cDone[i].cmds) = <<>> /\ Creates(cDone[i].cmds) = <<>>

\* C16: the first error raised while processing a source Filesystem makes
\* clone return that error at once: the Filesystems processed are a prefix of
\* the inventory, only the last one processed can have failed, clone is then
\* over with that error, so nothing is issued for a later Filesystem; and what
\* was done for earlier Filesystems stays done.
C16_FirstErrorStopsClone ==
    /\ [](/\ Len(cDone) <= Len(source_fs)
          /\ \A i \in 1..Len(cDone) :
                /\ cDone[i].src = source_fs[i]
                /\ i < Len(cDone) => cDone[i].res = Ok
                /\ cDone[i].res # Ok =>
                      /\ cpc = "done"
                      /\ cRet = cDone[i].res
          /\ (cpc = "done" /\ cRet # Ok) =>
                cDone # <<>> /\ Last(cDone).res = cRet)
    /\ [][IsPrefix(cDone, cDone')]_vars

C16_Witness ==
    /\ cpc = "done"
    /\ cRet # Ok
    /\ Len(cDone) = 2
    /\ Len(source_fs) > 2
    /\ Sends(cDone[1].cmds) # <<>>
    /\ ~IsExcluded(excludes, source_fs[3].name)

\* C17: a source Filesystem whose name matches an exclusion pattern or holds
\* '#' is skipped: nothing is issued for it, it raises no error, and clone
\* goes on with the Filesystem after it, returning only at the end of the
\* inventory or at another Filesystem's error.
C17_SkippedFilesystems ==
    \A i \in 1..Len(cDone) :
        LET e == cDone[i] IN
        (IsExcluded(excludes, e.src.name) \/ Contains(e.src.name, "#")) =>
            /\ e.cmds = <<>>
            /\ e.res = Ok
            /\ (cpc = "done" /\ i = Len(cDone)) =>
                  i = Len(source_fs) /\ cRet = Ok

C17_Witness ==
    /\ cpc = "done"
    /\ cRet = Ok
    /\ \E i \in 1..Len(cDone) :
          /\ IsExcluded(excludes, cDone[i].src.name)
          /\ ~Contains(cDone[i].src.name, "#")
          /\ \E j \in (i + 1)..Len(cDone) : Sends(cDone[j].cmds) # <<>>
    /\ \E i \in 1..Len(cDone) :
          /\ Contains(cDone[i].src.name, "#")
          /\ cDone[i].cmds = <<>>

\* ----------------------------------------------------- claims: transfer

IsEvent(e, ev, stage) == e.ev = ev /\ e.stage = stage

\* The stages of the events of kind ev, in order.
RECURSIVE StagesOf(_, _)
StagesOf(events, ev) ==
    IF events = <<>>
    THEN <<>>
    ELSE (IF Head(events).ev = ev THEN <<Head(events).stage>> ELSE <<>>)
         \o StagesOf(Tail(events), ev)

EstimateBeforeTransfer ==
    \A i \in 1..Len(xEvents) :
        xEvents[i].ev = "spawn" =>
            \E j \in 1..(i - 1) : IsEvent(xEvents[j], "run", "estimate")

\* A line that gives a size: its first field is size, its second a number.
IsSizeLine(line) ==
    /\ Len(Split(line)) >= 2
    /\ Split(line)[1] = <<"size">>
    /\ ParseUsize(Split(line)[2]) # None

\* The first line of lines, from line i on, that the scan stops at: one with
\* fewer than 2 fields or one whose first field is size; 0 when there is none.
RECURSIVE StopLineFrom(_, _)
StopLineFrom(lines, i) ==
    IF i > Len(lines)
    THEN 0
    ELSE LET f == Split(lines[i]) IN
         IF Len(f) < 2 \/ f[1] = <<"size">>
         THEN i
         ELSE StopLineFrom(lines, i + 1)

StopLine(lines) == StopLineFrom(lines, 1)

\* C15 as stated: a size-estimate query precedes every transfer, and when the
\* output of the query cannot be parsed, holding no line that gives a size,
\* the estimate is taken as zero and the clone goes on.
C15_UnparsableEstimateIsZero ==
    /\ EstimateBeforeTransfer
    /\ (/\ xEvents # <<>>
        /\ xEvents[1].arg = TRUE
        /\ ~\E i \in 1..Len(xOut) : IsSizeLine(xOut[i])) =>
          xSize = Some(0) /\ xRet \in {Pending, Ok} \cup {Err(e) : e \in {ErrSend, ErrPv, ErrReceive} \cup {ErrSpawn(st) : st \in Stages}}

\* C15 as amended: a size-estimate query precedes every transfer and its
\* result is the size given to pv.  The estimate is zero when the query
\* succeeds and, every line having at least two tab-separated fields, no line
\* has size as its first field.  A query that exits non-zero, or a line with
\* fewer than two fields before any size line, fails the clone before any
\* stage is spawned; a first size line whose value is not a number panics.
C15_EstimateOutcome ==
    /\ EstimateBeforeTransfer
    /\ \A i \in 1..Len(xEvents) :
          IsEvent(xEvents[i], "spawn", "pv") => xEvents[i].arg = xSize
    /\ xEvents # <<>> =>
          LET status == xEvents[1].arg
              k == StopLine(xOut)
              f == Split(xOut[k])
              want == IF ~status THEN Err(ErrEstimateCommand)
                      ELSE IF k = 0 THEN OkSize(0)
                      ELSE IF Len(f) < 2
                      THEN Err(ErrInvalidEstimateLine(xOut[k]))
                      ELSE IF ParseUsize(f[2]) # None
                      THEN OkSize(ParseUsize(f[2])[2])
                      ELSE Panic IN
          IF want[1] = "Ok"
          THEN xSize = Some(want[2])
          ELSE /\ xSize = None
               /\ xRet = want
               /\ xpc = "done"
               /\ Len(xEvents) = 1

C15_Witness ==
    /\ xpc = "done"
    /\ xRet = Ok
    /\ Len(xOut) = 2
    /\ StopLine(xOut) = 0
    /\ xSize = Some(0)
    /\ \E i \in 1..Len(xEvents) : xEvents[i] = Event("spawn", "pv", Some(0))

\* C18: send, pv and receive are spawned in that order, and no stage is
\* waited on before receive has been spawned.
C18_AllSpawnedBeforeAnyWait ==
    /\ IsPrefix(StagesOf(xEvents, "spawn"), <<"send", "pv", "receive">>)
    /\ \A i \in 1..Len(xEvents) :
          xEvents[i].ev = "wait" =>
              \E j \in 1..(i - 1) : IsEvent(xEvents[j], "spawn", "receive")

C18_Witness ==
    /\ xpc = "wait_send"
    /\ xExit["send"] = "fail"
    /\ xExit["pv"] = "ok"
    /\ xExit["receive"] = "running"
    /\ StagesOf(xEvents, "wait") = <<>>

\* C19: the stages are waited on in the order send, pv, receive; once the
\* three are spawned and do_clone has returned, its error names the first stage
\* in that order that exited non-zero, and it is Ok only when all three
\* exited with status zero.
C19_ErrorNamesFirstFailedStage ==
    /\ IsPrefix(StagesOf(xEvents, "wait"), <<"send", "pv", "receive">>)
    /\ (xpc = "done" /\ Len(StagesOf(xEvents, "spawn")) = Cardinality(Stages)) =>
          /\ xRet = (IF xExit["send"] = "fail" THEN Err(ErrSend)
                     ELSE IF xExit["pv"] = "fail" THEN Err(ErrPv)
                     ELSE IF xExit["receive"] = "fail" THEN Err(ErrReceive)
                     ELSE Ok)
          /\ xRet = Ok => \A st \in Stages : xExit[st] = "ok"
          /\ xRet = Err(ErrPv) => xExit["send"] = "ok"
          /\ xRet = Err(ErrReceive) => xExit["send"] = "ok" /\ xExit["pv"] = "ok"

C19_Witness ==
    /\ xpc = "done"
    /\ xRet = Err(ErrPv)
    /\ xExit["receive"] = "fail"
    /\ StagesOf(xEvents, "wait") = <<"send", "pv">>

\* ---------------------------------------------------- claims: make_volume

\* The overrides the listing calls for: per line, in order, -o and
\* property=value when the source is local or received and the property is
\* not mountpoint.
RECURSIVE Overrides(_)
Overrides(lines) ==
    IF lines = <<>>
    THEN <<>>
    ELSE LET f == Split(Head(lines)) IN
         (IF f[4] \in {<<"local">>, <<"received">>} /\ f[2] # <<"mountpoint">>
          THEN << <<"-o">>, f[2] \o <<"=">> \o f[3] >>
          ELSE <<>>)
         \o Overrides(Tail(lines))

PruneFound == \E i \in 1..Len(pFs) : pFs[i].name = pName
PruneSnaps == (CHOOSE fs \in Range(pFs) : fs.name = pName).snaps

\* to_prune has been computed.
Selected == PruneFound /\ ppc \in {"loop", "done"}

IsNumbered(sn) == SnapNumber(sn) # None

\* Snapshot i of snaps matches the pattern and at least keep newer ones do.
OutOfWindow(snaps, i, keep) ==
    /\ IsNumbered(snaps[i])
    /\ Cardinality({j \in (i + 1)..Len(snaps) : IsNumbered(snaps[j])}) >= keep

IsSelected(sn) == \E k \in 1..Len(pToPrune) : pToPrune[k] = pName \o <<"@">> \o sn

\* The arguments of the destroy commands run, in order.
RECURSIVE Destroyed(_)
Destroyed(cmds) ==
    IF cmds = <<>>
    THEN <<>>
    ELSE (IF Head(cmds).op = "destroy" THEN <<Head(cmds).arg>> ELSE <<>>)
         \o Destroyed(Tail(cmds))

\* C21: every name selected for deletion is the name of a snapshot of the
\* Filesystem that matches the pattern and has at least K = 10 newer
\* pattern-matching snapshots.
C21_SelectionSparesWindowAndOthers ==
    /\ pKeep = PRUNE_KEEP
    /\ Selected =>
          \A k \in 1..Len(pToPrune) :
              \E i \in 1..Len(PruneSnaps) :
                 /\ pToPrune[k] = pName \o <<"@">> \o PruneSnaps[i]
                 /\ OutOfWindow(PruneSnaps, i, PRUNE_KEEP)

C21_Witness ==
    /\ ppc = "done"
    /\ pRet = Ok
    /\ Len(pToPrune) = 2
    /\ PruneSnaps[1] = ManualSnap
    /\ Len(PruneSnaps) > PRUNE_KEEP + 2
    /\ IsSelected(PruneSnaps[3])

\* C22: a pattern-matching snapshot older than the K most recent is selected
\* if and only if a newer one, also older than the K most recent, has the
\* same population count of its index: per population count the newest is
\* retained and every other one selected.
C22_NewestPerPopulationCount ==
    Selected =>
        \A i \in 1..Len(PruneSnaps) :
            OutOfWindow(PruneSnaps, i, pKeep) =>
                (IsSelected(PruneSnaps[i]) <=>
                    \E j \in (i + 1)..Len(PruneSnaps) :
                       /\ OutOfWindow(PruneSnaps, j, pKeep)
                       /\ CountOnes(SnapNumber(PruneSnaps[j])[2])
                             = CountOnes(SnapNumber(PruneSnaps[i])[2]))

C22_Witness ==
    /\ ppc = "done"
    /\ pRet = Ok
    /\ Len(pToPrune) = 3
    /\ \E i \in 1..Len(PruneSnaps) :
          OutOfWindow(PruneSnaps, i, pKeep) /\ ~IsSelected(PruneSnaps[i])

\* The snapshot list of the example: indices 0..7, oldest first.
HanoiExample == SnapNamesOf(Increasing(0..7))

HanoiExampleRun ==
    /\ pKeep = 2
    /\ PruneSnaps = HanoiExample
    /\ ppc \in {"loop", "done"}

\* C23 as stated: with K = 2 and the indices 0..7 the prunable snapshots are
\* exactly 2 and 3, and 0, 1, 4, 5, 6, 7 are retained.
C23_ExampleSelectsTwoAndThree ==
    HanoiExampleRun =>
        \A n \in 0..7 : IsSelected(SnapName(n)) <=> n \in {2, 3}

\* C23 as amended: with K = 2 and the indices 0..7 the prunable snapshots are
\* exactly 1, 2 and 3, and 0, 4, 5, 6, 7 are retained.
C23_ExampleSelectsOneTwoThree ==
    HanoiExampleRun =>
        /\ \A n \in 0..7 : IsSelected(SnapName(n)) <=> n \in {1, 2, 3}
        /\ Len(pToPrune) = 3

C23_Witness ==
    /\ HanoiExampleRun
    /\ ppc = "done"
    /\ pRet = Ok
    /\ pReally
    /\ Len(Destroyed(pCmds)) = 3

\* C24: in really mode every destroy of a snapshot comes right after a
\* bookmark command for that snapshot.
C24_BookmarkBeforeDestroy ==
    \A i \in 1..Len(pCmds) :
        pCmds[i].op = "destroy" =>
            /\ i > 1
            /\ pCmds[i - 1].op = "bookmark"
            /\ pCmds[i - 1].arg = pCmds[i].arg

\* The names of the lines printed, in order.
RECURSIVE Reported(_)
Reported(lines) ==
    IF lines = <<>> THEN <<>> ELSE <<Head(lines).name>> \o Reported(Tail(lines))

\* C25: a run with really false that has returned has reported, as would-be
\* prunes and in the same order, exactly the snapshots a run with really true
\* on the same inventory has destroyed when it returns Ok; and with really
\* false no command is run.
C25_DryRunReportsTheSameSnapshots ==
    /\ ~pReally => pCmds = <<>>
    /\ (ppc = "done" /\ pRet = Ok) =>
          LET selection == ToPrune(CHOOSE fs \in Range(pFs) : fs.name = pName, pName, pKeep) IN
          IF pReally
          THEN /\ Destroyed(pCmds) = selection
               /\ \A i \in 1..Len(pCmds) : pCmds[i].status
          ELSE /\ Reported(pOut) = selection
               /\ \A i \in 1..Len(pOut) : pOut[i].would

C25_Witness ==
    /\ ppc = "done"
    /\ pRet = Ok
    /\ ~pReally
    /\ Len(pOut) = 3

\* C26: the destroy commands are issued in the order of the Filesystem's
\* snapshot list, oldest first.
C26_DestroyOldestFirst ==
    PruneFound =>
        \A a, b \in 1..Len(pCmds) :
            (a < b /\ pCmds[a].op = "destroy" /\ pCmds[b].op = "destroy") =>
                \E i, j \in 1..Len(PruneSnaps) :
                   /\ i < j
                   /\ pCmds[a].arg = pName \o <<"@">> \o PruneSnaps[i]
                   /\ pCmds[b].arg = pName \o <<"@">> \o PruneSnaps[j]

C26_Witness ==
    /\ ppc = "done"
    /\ pRet = Ok
    /\ pReally
    /\ Len(pCmds) = 3

\* C27: a destroy that fails is the last command of the run, which returns
\* its error at once; the destroys before it succeeded and stay done.
C27_DestroyFailureStopsPrune ==
    /\ [](/\ \A i \in 1..Len(pCmds) :
                ~pCmds[i].status =>
                    /\ i = Len(pCmds)
                    /\ ppc = "done"
                    /\ pRet = Err(ErrDestroyCommand)
          /\ (ppc = "done" /\ pRet = Err(ErrDestroyCommand)) =>
                /\ pCmds # <<>>
                /\ ~Last(pCmds).status
                /\ Destroyed(pCmds) = SubSeq(pToPrune, 1, Len(pCmds)))
    /\ [][IsPrefix(pCmds, pCmds')]_vars

C27_Witness ==
    /\ ppc = "done"
    /\ pRet = Err(ErrDestroyCommand)
    /\ Len(pToPrune) = 3
    /\ Len(pCmds) = 2
    /\ pCmds[1].status

\* ------------------------------------------------------ claims: dry runs

\* C28, for clone: a clone without perform that has returned has returned Ok
\* and has run no transfer and no volume creation.
C28_DryRunCloneSucceeds ==
    (cpc = "done" /\ ~perform) =>
        /\ cRet = Ok
        /\ \A i \in 1..Len(cDone) :
              \A k \in 1..Len(cDone[i].cmds) :
                  cDone[i].cmds[k].op \notin {"send", "create"}

\* ------------------------------------------------------ claims: Zfs::new

\* The position of the first x in s, 0 when x is not in s.
FirstAt(s, x) ==
    IF \E i \in 1..Len(s) : s[i] = x
    THEN CHOOSE i \in 1..Len(s) : s[i] = x /\ \A j \in 1..(i - 1) : s[j] # x
    ELSE 0

HasTab(line) == FirstAt(line, Tab) # 0

\* What a line with a tab says: the name before the tab, cut at its first '@'.
LineName(line) == SubSeq(line, 1, FirstAt(line, Tab) - 1)
LineMount(line) == SubSeq(line, FirstAt(line, Tab) + 1, Len(line))
IsSnapLine(line) == FirstAt(LineName(line), "@") # 0
LineVolume(line) ==
    IF IsSnapLine(line)
    THEN SubSeq(LineName(line), 1, FirstAt(LineName(line), "@") - 1)
    ELSE LineName(line)
LineSnap(line) ==
    SubSeq(LineName(line), FirstAt(LineName(line), "@") + 1, Len(LineName(line)))

\* The volume line that snapshot line i follows, 0 when none precedes it.
VolumeLineBefore(lines, i) ==
    IF \E j \in 1..(i - 1) : ~IsSnapLine(lines[j])
    THEN CHOOSE j \in 1..(i - 1) :
            ~IsSnapLine(lines[j]) /\ \A k \in (j + 1)..(i - 1) : IsSnapLine(lines[k])
    ELSE 0

\* Snapshot line i does not follow a volume line of its own volume.
IsStraySnap(lines, i) ==
    /\ IsSnapLine(lines[i])
    /\ \/ VolumeLineBefore(lines, i) = 0
       \/ LineVolume(lines[VolumeLineBefore(lines, i)]) # LineVolume(lines[i])

\* The snapshot names of the run of snapshot lines that starts at line k.
RECURSIVE SnapRun(_, _)
SnapRun(lines, k) ==
    IF k > Len(lines) \/ ~IsSnapLine(lines[k])
    THEN <<>>
    ELSE <<LineSnap(lines[k])>> \o SnapRun(lines, k + 1)

\* One Filesystem per volume line from line k on, with the snapshots of the
\* snapshot lines that follow it.
RECURSIVE VolumesFrom(_, _)
VolumesFrom(lines, k) ==
    IF k > Len(lines)
    THEN <<>>
    ELSE (IF IsSnapLine(lines[k])
          THEN <<>>
          ELSE <<[name |-> LineVolume(lines[k]),
                  snaps |-> SnapRun(lines, k + 1),
                  mount |-> LineMount(lines[k])]>>)
         \o VolumesFrom(lines, k + 1)

ListingRead == bpc = "done" /\ bRet # Err(ErrListCommand)

\* C29: for a listing whose lines all have a name and a mountpoint and whose
\* snapshot lines all follow their own volume, Zfs::new returns one Filesystem
\* per volume line, in line order, each with the snapshot names of the
\* snapshot lines between its line and the next volume line, in order.
C29_ParserGroupsSnapshots ==
    (/\ ListingRead
     /\ \A i \in 1..Len(bLines) : HasTab(bLines[i])
     /\ \A i \in 1..Len(bLines) : ~IsStraySnap(bLines, i)) =>
        bRet = <<"Ok", VolumesFrom(bLines, 1)>>

C29_Witness ==
    /\ ListingRead
    /\ bRet[1] = "Ok"
    /\ Len(bRet[2]) = 2
    /\ bRet[2][1].snaps = << <<"a">>, <<"b">> >>
    /\ bRet[2][2].snaps = <<>>

\* C30: a snapshot line that does not follow a volume line of its own volume
\* is never gone past: parsing ends there with a panic, Zfs::new returns no
\* inventory, and no Filesystem holds a snapshot of that line or a later one.
C30_StraySnapshotIsFatal ==
    \A i \in 1..Len(bLines) :
        ((\A j \in 1..i : HasTab(bLines[j])) /\ IsStraySnap(bLines, i)) =>
            /\ bIdx <= i
            /\ bpc = "done" => bRet[1] # "Ok"
            /\ (bpc = "done" /\ bIdx = i) => bRet = Panic
            /\ \A k \in 1..Len(work) : Len(work[k].snaps) < i

C30_Witness ==
    /\ bpc = "done"
    /\ bRet = Panic
    /\ bIdx = 3
    /\ Len(work) = 1
    /\ work[1].snaps = << <<"a">> >>
    /\ IsStraySnap(bLines, 3)
    /\ VolumeLineBefore(bLines, 3) # 0

\* The number of tab-separated fields of a line.
FieldCount(line) == Len(Split(line))

\* The first line without a tab, 0 when every line has one.
FirstTabless(lines) ==
    IF \E i \in 1..Len(lines) : ~HasTab(lines[i])
    THEN CHOOSE i \in 1..Len(lines) :
            ~HasTab(lines[i]) /\ \A j \in 1..(i - 1) : HasTab(lines[j])
    ELSE 0

\* C31 as stated: a listing that holds a line with fewer or with more than two
\* tab-separated fields yields no inventory.
C31_NotTwoFieldsFails ==
    (ListingRead /\ \E i \in 1..Len(bLines) : FieldCount(bLines[i]) # 2) =>
        bRet[1] # "Ok"

\* C31: a line without a tab, when no snapshot line before it is out of place,
\* makes Zfs::new return the two-fields error for that line; a line with two
\* tabs or more is read like any other, its mountpoint being everything after
\* its first tab, so a listing whose lines all hold a tab and whose snapshot
\* lines all follow their volume yields an inventory.
C31_OnlyTablessLinesFail ==
    ListingRead =>
        /\ (/\ FirstTabless(bLines) # 0
            /\ \A j \in 1..(FirstTabless(bLines) - 1) : ~IsStraySnap(bLines, j)) =>
               bRet = Err(ErrListLine(bLines[FirstTabless(bLines)]))
        /\ bRet[1] = "Err" => FirstTabless(bLines) # 0
        /\ (/\ FirstTabless(bLines) = 0
            /\ \A j \in 1..Len(bLines) : ~IsStraySnap(bLines, j)) =>
               /\ bRet[1] = "Ok"
               /\ \A k \in 1..Len(bRet[2]) :
                     \E i \in 1..Len(bLines) :
                        /\ ~IsSnapLine(bLines[i])
                        /\ bRet[2][k].name = LineName(bLines[i])
                        /\ bRet[2][k].mount = LineMount(bLines[i])

C31_Witness ==
    /\ ListingRead
    /\ bRet[1] = "Ok"
    /\ Len(bRet[2]) = 2
    /\ FieldCount(bLines[2]) = 3
    /\ bRet[2][2].mount = <<"/m", Tab, "x">>

\* ----------------------------------------- claims: filtered, next_under

\* name is under, or under followed by '/' and anything.
IsUnder(name, under) ==
    \/ name = under
    \/ /\ Len(name) > Len(under)
       /\ \A i \in 1..Len(under) : name[i] = under[i]
       /\ name[Len(under) + 1] = "/"

\* The Filesystems of l from position k on that are under a name, in order.
RECURSIVE UnderFrom(_, _, _)
UnderFrom(l, k, under) ==
    IF k > Len(l)
    THEN <<>>
    ELSE (IF IsUnder(l[k].name, under) THEN <<l[k]>> ELSE <<>>)
         \o UnderFrom(l, k + 1, under)

\* C32: filtered(under) returns the Filesystems of the inventory whose name is
\* under or starts with under and '/', in inventory order, and no Filesystem
\* whose name goes on after under with another character.
C32_FilteredIsSubtreeInOrder ==
    npc = "take" =>
        /\ nList = UnderFrom(nFs, 1, nUnder)
        /\ \A i \in 1..Len(nList) :
              nList[i].name # nUnder => nList[i].name[Len(nUnder) + 1] = "/"

C32_Witness ==
    /\ npc = "take"
    /\ nUnder = <<"t", "/", "a">>
    /\ Len(nFs) = 4
    /\ Len(nList) = 2
    /\ nList[1].name = <<"t", "/", "a">>
    /\ nList[2].name = <<"t", "/", "a", "/", "b">>
    /\ nFs[3].name = <<"t", "/", "a", "b">>

\* --------------------------------------------------------- claims: sudo

KeepAliveEnabled == kEnable /\ ~kRoot

\* C33: no sudo true process is started once the Sudo value is dropped, the
\* task is then cancelled or has ended, and the drop changes nothing but the
\* handle and the task: processes started, commands made and the log stay as
\* they are; with enable false or as root there is no handle, no task and no
\* sudo true process at any time.
C33_DropStopsFuturePokesOnly ==
    /\ [](/\ \A i \in 1..Len(kPokes) : kPokes[i].owner # "dropped"
          /\ kpc = "dropped" =>
                /\ kChild = None
                /\ kTask = (IF KeepAliveEnabled
                            THEN (IF kLog = <<>> THEN "cancelled" ELSE "ended")
                            ELSE "none")
          /\ ~KeepAliveEnabled => kChild = None /\ kTask = "none" /\ kPokes = <<>>)
    /\ [][(kpc = "live" /\ kpc' = "dropped") =>
             UNCHANGED <<kPokes, kCmds, kTicks, kLog, kRet, exceptSudo>>]_vars
    /\ [][kpc = "dropped" =>
             /\ Len(kPokes') = Len(kPokes)
             /\ UNCHANGED <<kpc, kChild, kTask, kCmds, kTicks, kLog, kRet>>]_vars

\* The task is cancelled while sudo true runs, and sudo true then exits.
C33_Witness ==
    /\ kpc = "dropped"
    /\ kTask = "cancelled"
    /\ Len(kPokes) = 3
    /\ kPokes[3].by = "task"
    /\ kPokes[3].exit = "ok"
    /\ ~kPokes[3].awaited

\* The sudo true processes the task started, in order.
TaskPokes == SelectSeq(kPokes, LAMBDA p : p.by = "task")

\* C40: the task starts its j-th sudo true at the tick that is due
\* 60 * j seconds after its interval was made, each one only while the Sudo
\* value lives and after every earlier one exited with success; when one
\* fails the task ends, it is the last process started, and new_cmd goes on
\* returning sudo <cmd>.  The runtime scheduling the task and sudo true
\* exiting, the next sudo true is started as long as none failed and the Sudo
\* value is not dropped.
C40_PokesEveryPeriodUntilFailure ==
    /\ [](/\ \A j \in 1..Len(TaskPokes) :
                /\ TaskPokes[j].at = 60 * j
                /\ TaskPokes[j].owner = "live"
          /\ \A i \in 2..Len(kPokes) : kPokes[i - 1].exit = "ok"
          /\ \A i \in 1..Len(kPokes) :
                (kPokes[i].by = "task" /\ kPokes[i].exit = "fail" /\ kPokes[i].awaited) =>
                    /\ i = Len(kPokes)
                    /\ kTask = "ended"
                    /\ kLog # <<>>
          /\ \A c \in 1..Len(kCmds) :
                kCmds[c].task = "ended" => kCmds[c].wrap = "sudo"
          /\ kTask = "ended" => kPokes[Len(kPokes)].exit = "fail")
    /\ [][kTask = "ended" => kTask' = "ended" /\ kPokes' = kPokes]_vars
    /\ \A n \in 0..(MaxPokes - 1) :
          (kChild # None /\ Len(kPokes) = n) ~>
              (Len(kPokes) > n \/ kpc = "dropped" \/ kTask = "ended")

\* A command is made after the task ended on its second sudo true.
C40_Witness ==
    /\ kpc = "live"
    /\ kTask = "ended"
    /\ Len(TaskPokes) = 2
    /\ TaskPokes[2].at = 120
    /\ TaskPokes[2].exit = "fail"
    /\ kCmds # <<>>
    /\ kCmds[Len(kCmds)].task = "ended"
    /\ kCmds[Len(kCmds)].wrap = "sudo"

\* ------------------------------------------------- claims: build_runner

\* The place of a Phase in the fixed order.
PhaseRank(p) == CHOOSE i \in 1..5 :
    <<"Timestamp", "Snapshot", "Mount", "Rsure", "Borg">>[i] = p

\* The Actions of the returned Runner but the last.
PhaseActions == SubSeq(gRunner, 1, Len(gRunner) - 1)

\* Action a is made before Action b in configuration order: the message of a
\* Phase, then the Simple targets, then the Lvm targets, each list in order.
ConfigBefore(a, b) ==
    \/ a.list = "none" /\ b.list # "none"
    \/ a.list = "simple" /\ b.list = "lvm"
    \/ a.list = b.list /\ a.idx < b.idx

\* C34: in the Runner build_runner returns, the Actions but the last go by
\* Phase in the order Timestamp, Snapshot, Mount, Rsure, Borg whatever the
\* order of the targets, the Actions of one Phase stand in configuration
\* order, and the last Action is the message "Finished, cleaning up".
C34_PhasesInFixedOrder ==
    gpc = "done" =>
        /\ gRunner[Len(gRunner)].type = "Message"
        /\ gRunner[Len(gRunner)].name = "Finished, cleaning up"
        /\ \A i \in 1..Len(PhaseActions) :
              PhaseActions[i].phase \in
                  {"Timestamp", "Snapshot", "Mount", "Rsure", "Borg"}
        /\ \A i, j \in 1..Len(PhaseActions) :
              i < j =>
                 /\ PhaseRank(PhaseActions[i].phase) <= PhaseRank(PhaseActions[j].phase)
                 /\ PhaseActions[i].phase = PhaseActions[j].phase =>
                       ConfigBefore(PhaseActions[i], PhaseActions[j])

\* Simple targets b and a and Lvm target c, all taken.
C34_Witness ==
    /\ gpc = "done"
    /\ gSimple = <<"b", "a">>
    /\ gLvm = <<"c">>
    /\ gNames = <<>>
    /\ Len(gRunner) = 17
    /\ gRunner[2].name = "b" /\ gRunner[3].name = "a" /\ gRunner[4].name = "c"
    /\ gRunner[5].phase = "Snapshot"

\* The types of the Actions a target of a list gets.
TargetTypes(list) ==
    IF list = "simple"
    THEN {"Stamp", "SimpleRsure", "BorgBackup"}
    ELSE {"Stamp", "LvmSnapshot", "MountSnap", "LvmRsure", "BorgBackup"}

\* The types of the Actions the returned Runner holds for a target.
TypesIncluded(list, idx) ==
    {gRunner[k].type : k \in {k \in 1..Len(gRunner) :
                                gRunner[k].list = list /\ gRunner[k].idx = idx}}

\* A target of that name is asked for.
Wanted(name) == gNames = <<>> \/ \E i \in 1..Len(gNames) : gNames[i] = name

\* C35: the Runner build_runner returns holds the Actions of every target
\* when no name is given, and otherwise the Actions of every target whose name
\* is given and no Action of another target, wherever the target stands.
C35_FilterTakesNamedTargets ==
    gpc = "done" =>
        /\ \A i \in 1..Len(gSimple) :
              TypesIncluded("simple", i) =
                  (IF Wanted(gSimple[i]) THEN TargetTypes("simple") ELSE {})
        /\ \A i \in 1..Len(gLvm) :
              TypesIncluded("lvm", i) =
                  (IF Wanted(gLvm[i]) THEN TargetTypes("lvm") ELSE {})

\* ------------------------------------------------ claims: termination

\* C36: every transfer that is started returns: with the three processes
\* scheduled and pipe buffers of bounded size, do_clone gets to its return,
\* also when zfs receive exits before it read the stream or when zfs send or
\* pv fails.
C36_TransferReturns == <>(qpc = "done")

\* ------------------------------------------------- claims: snapshot names

\* C39: the name snap_name gives an index is read back by snap_number as
\* that index, so every snapshot take_snapshot made matches the pattern and,
\* the inventory being built again, next_under is greater than the index of
\* every snapshot taken, also for an index of more than four digits.
C39_IndicesRoundTrip ==
    /\ \A i \in 1..Len(nTaken) : SnapNumber(nTaken[i].name) = Some(nTaken[i].index)
    /\ (npc = "take" /\ nFs = nPool) =>
          \A i \in 1..Len(nTaken) : nNext[2] > nTaken[i].index

\* ------------------------------------------- claims: clone run again

\* C37: when clone with perform true returned Ok and is called again with the
\* same arguments on the same source inventory and the destination inventory
\* listed anew, every pair it does not skip has an existing destination whose
\* latest snapshot is the source's latest; no command is run, nothing is
\* created or transferred, and the second clone returns Ok, never a
\* diverged-history error.
C37_SecondCloneIsUpToDate ==
    cRun = 2 =>
        /\ \A i \in 1..Len(cDone) :
              /\ cDone[i].cmds = <<>>
              /\ cDone[i].res = Ok
              /\ cDone[i].kind # "skip" =>
                    /\ cDone[i].kind = "existing"
                    /\ cDone[i].dest.snaps # <<>>
                    /\ Last(cDone[i].dest.snaps) = Last(cDone[i].src.snaps)
        /\ cpc = "done" => cRet = Ok /\ Len(cDone) = Len(source_fs)

\* The first clone created dd/a and seeded it with two transfers, and skipped
\* the bookmark; the second has returned.
C37_Witness ==
    /\ cRun = 2
    /\ cpc = "done"
    /\ Len(cDone) = 3
    /\ cDone[2].kind = "existing"
    /\ cDone[3].kind = "skip"
    /\ cFirst[2].kind = "fresh"
    /\ Len(Creates(cFirst[2].cmds)) = 1
    /\ Len(Sends(cFirst[2].cmds)) = 2

\* The datasets of a pool that have a name.
Named(pool, name) == {j \in 1..Len(pool) : pool[j].name = name}

\* C38: when clone has returned, with Ok or with Err, every destination
\* volume it created holds a snapshot.
C38_NoEmptyFreshDestination ==
    (cpc = "done" /\ cRun = 1) =>
        \A i \in 1..Len(cDone) :
            \A k \in 1..Len(Succeeded(cDone[i])) :
                cDone[i].cmds[k].op = "create" =>
                    \E j \in Named(PoolAfter(dstFs, cDone, 1), cDone[i].cmds[k].fs) :
                        PoolAfter(dstFs, cDone, 1)[j].snaps # <<>>

====
